---- MODULE Spec2Model ----
(***************************************************************************)
(* Peer-Ride cloud functions: the trip / pairing-request lifecycle.        *)
(*                                                                         *)
(* The document store holds the collections "trips" and "pairRequests".    *)
(* Every exported function is an independent invocation that runs between  *)
(* its awaits concurrently with every other invocation; one action of the  *)
(* model is the code between two awaits of one invocation.                 *)
(***************************************************************************)
EXTENDS Integers, FiniteSets, Sequences, TLC

(* ------------------------------------------------------------------ *)
(* Bounds of the model.                                                *)
(* ------------------------------------------------------------------ *)
\* document ids the store can hand out (ids are never reused)
MaxTrips == 2
MaxReqs == 2
\* concurrent invocations of each callable
NAccept == 2
NCreateReq == 1
NCreateTrip == 1
\* invocations (of any function) that run at the same time
MaxInFlight == 2
\* the clock value (in half days) at which the model starts
StartNow == 7

\* one day, in the clock's unit (half days)
DAY == 2

Users == {"hana", "gus", "rio"}
\* request.auth?.uid of an unauthenticated call
NoUid == ""
\* a requestId / tripId that is missing or not a string
BadId == 0

\* JavaScript null / undefined where the other values are strings
Null == "<null>"
Undefined == "<undefined>"

VARIABLES
    trips,      \* collection "trips": the document of id i is trips[i]
    reqs,       \* collection "pairRequests": the document of id i is reqs[i]
    now,        \* the clock
    acc,        \* invocations of acceptPairRequest
    cpr,        \* invocations of createPairRequest
    ctr,        \* invocations of createTrip
    sweep,      \* the invocation of cleanupStaleData
    mail,       \* collection "mail": creation times of its documents
    ntf,        \* the invocation of notifyPairAcceptance
    signup,     \* restrictUserSignupByDomain: the configuration document, the
                \* instance's cache and clock, and the invocation
    raced       \* history: the callers two of whose calls passed a check before either wrote

vars == <<trips, reqs, now, acc, cpr, ctr, sweep, mail, ntf, signup, raced>>

\* a document that does not exist (snapshot.exists = false)
NoDoc == [exists |-> FALSE]
\* guest: null
NullGuest == [id |-> Null]

\* ids the store has assigned so far (an id is never assigned twice)
TripIds == DOMAIN trips
ReqIds == DOMAIN reqs

\* doc(`trips/${t}`).get() and doc(`pairRequests/${r}`).get()
TripDoc(t) == IF t \in TripIds THEN trips[t] ELSE NoDoc
ReqDoc(r) == IF r \in ReqIds THEN reqs[r] ELSE NoDoc

\* collection("pairRequests").where("tripId", "==", t)
ReqsOfTrip(t) == {r \in ReqIds : reqs[r].exists /\ reqs[r].tripId = t}

\* ... .where("status", "==", "pending")
PendingOfTrip(t) == {r \in ReqsOfTrip(t) : reqs[r].status = "pending"}

\* the invocations that have started and not yet ended
Running(procs) == {p \in DOMAIN procs : procs[p].pc \notin {"idle", "done"}}
InFlight ==
    Cardinality(Running(acc)) + Cardinality(Running(cpr)) + Cardinality(Running(ctr))
        + (IF sweep.pc \in {"idle", "done"} THEN 0 ELSE 1)

\* no calls have overlapped so far
NoRace == [pairs |-> {}, hosts |-> {}]

\* the createPairRequest calls of uid for trip t that have passed the
\* duplicate lookup and have not inserted yet
CallsOnTrip(uid, t) ==
    {q \in DOMAIN cpr : /\ cpr[q].pc = "add"
                        /\ cpr[q].auth.uid = uid
                        /\ cpr[q].doc.tripId = t}

\* the createTrip calls of uid that have passed the count and have not added yet
CallsOfHost(uid) ==
    {q \in DOMAIN ctr : ctr[q].pc = "add" /\ ctr[q].auth.uid = uid}

\* snapshot.get("domains") of a configuration document that is missing or
\* has no such field
MissingConfig == [t |-> "undefined", items |-> <<>>]

\* a value that may be null or undefined: no element, or the value
None == <<>>
Some(v) == <<v>>

\* another invocation of getAllowedDomains in the same process, at rest
PeerIdle == [now |-> 0,
             pc |-> "idle",
             snapshot |-> MissingConfig,
             readAt |-> 0]

\* restrictUserSignupByDomain at rest, no domains cached (line 15); cachedRaw
\* and cachedAt remember the document the cached list was made from and the
\* time it was read at, usedRaw and usedAt the same for the list in use, and
\* latestStart the latest start of a fetch that stored a list
SignupIdle(config) ==
    [now |-> 0,
     pc |-> "idle",
     config |-> config,
     cachedDomains |-> None,
     lastFetchMs |-> 0,
     clock |-> 0,
     user |-> [exists |-> FALSE, email |-> None],
     allowedDomains |-> <<>>,
     read |-> MissingConfig,
     fetched |-> FALSE,
     result |-> "none",
     cachedRaw |-> MissingConfig,
     cachedAt |-> 0,
     usedRaw |-> MissingConfig,
     usedAt |-> 0,
     latestStart |-> 0,
     peer |-> PeerIdle]

\* notifyPairAcceptance at rest
NtfIdle ==
    [pc |-> "idle",
     result |-> "none",
     beforeStatus |-> Undefined,
     afterData |-> NoDoc,
     tripData |-> NoDoc,
     toRequester |-> 0,
     toHost |-> 0]

\* An invocation that has ended hands its outcome to its caller before the
\* model takes any other step: the outcome of a call is observed in the state
\* in which the call ended.
Quiet ==
    /\ \A p \in DOMAIN acc : acc[p].pc # "done"
    /\ \A p \in DOMAIN cpr : cpr[p].pc # "done"
    /\ \A p \in DOMAIN ctr : ctr[p].pc # "done"
    /\ sweep.pc # "done"

(* ------------------------------------------------------------------ *)
(* acceptPairRequest                                                   *)
(* ------------------------------------------------------------------ *)
AccIdle ==
    [tripId |-> BadId,
     pc |-> "idle",
     uid |-> NoUid,
     result |-> "none",
     requestId |-> BadId,
     reqSnap |-> NoDoc,
     tripSnap |-> NoDoc,
     pending |-> {},
     committed |-> FALSE,
     startReady |-> FALSE,
     startPaired |-> FALSE,
     startTrip |-> BadId,
     owed |-> {},
     batchFailed |-> FALSE]

\* the checks on the request snapshot inside the transaction
AcceptCheckReqNoStatus(reqSnap) ==
    IF ~reqSnap.exists THEN "not-found"
    ELSE IF reqSnap.tripId = BadId THEN "failed-precondition"
    ELSE "ok"

AcceptCheckReq(reqSnap) ==
    IF ~reqSnap.exists THEN "not-found"
    ELSE IF reqSnap.status # "pending" THEN "failed-precondition"
    ELSE IF reqSnap.tripId = BadId THEN "failed-precondition"
    ELSE "ok"

\* the checks on the trip snapshot inside the transaction
AcceptCheckTripStatusFirst(tripSnap, uid) ==
    IF ~tripSnap.exists THEN "not-found"
    ELSE IF tripSnap.status # Undefined /\ tripSnap.status # "open"
         THEN "failed-precondition"
    ELSE IF tripSnap.hostId # uid THEN "permission-denied"
    ELSE "ok"

AcceptCheckTripAnyCaller(tripSnap, uid) ==
    IF ~tripSnap.exists THEN "not-found"
    ELSE IF tripSnap.status # Undefined /\ tripSnap.status # "open"
         THEN "failed-precondition"
    ELSE "ok"

AcceptCheckTripNoStatus(tripSnap, uid) ==
    IF ~tripSnap.exists THEN "not-found"
    ELSE IF tripSnap.hostId # uid THEN "permission-denied"
    ELSE "ok"

AcceptCheckTrip(tripSnap, uid) ==
    IF ~tripSnap.exists THEN "not-found"
    ELSE IF tripSnap.hostId # uid THEN "permission-denied"
    ELSE IF tripSnap.status # Undefined /\ tripSnap.status # "open"
         THEN "failed-precondition"
    ELSE "ok"

\* the guest snapshot written into the trip
GuestSnapshotNoNote(reqData) ==
    [id |-> reqData.requesterId,
     nickname |-> reqData.requesterName,
     luggage |-> reqData.luggage,
     note |-> Null,
     guestContactMethod |-> reqData.requesterContactMethod,
     guestContactValue |-> reqData.requesterContactValue]

GuestSnapshot(reqData) ==
    [id |-> reqData.requesterId,
     nickname |-> reqData.requesterName,
     luggage |-> reqData.luggage,
     note |-> IF reqData.note = Undefined THEN Null ELSE reqData.note,
     guestContactMethod |-> IF reqData.requesterContactMethod = Undefined
                            THEN "email" ELSE reqData.requesterContactMethod,
     guestContactValue |-> IF reqData.requesterContactValue = Undefined
                           THEN Null ELSE reqData.requesterContactValue]

\* the invocation p ends with outcome: the response is on its way to the caller
AccEnd(p, outcome) ==
    acc' = [acc EXCEPT ![p].pc = "done", ![p].result = outcome]

\* lines 327-339: the caller and the payload are checked before any store access
AccStart(p, uid, requestId) ==
    /\ acc[p].pc = "idle"
    /\ Quiet
    /\ InFlight < MaxInFlight
    /\ LET r == ReqDoc(requestId)
           t == IF r.exists THEN TripDoc(r.tripId) ELSE NoDoc
           ready == /\ uid # NoUid
                    /\ r.exists /\ r.status = "pending"
                    /\ t.exists /\ t.status = "open"
                    /\ t.hostId = uid
           paired == /\ uid # NoUid
                     /\ r.exists
                     /\ t.exists /\ t.status = "paired"
                     /\ t.hostId = uid
           call == [AccIdle EXCEPT
                      !.uid = uid, !.requestId = requestId,
                      !.startReady = ready, !.startPaired = paired,
                      !.startTrip = IF ready \/ paired THEN r.tripId ELSE BadId]
       IN  acc' = [acc EXCEPT ![p] =
                IF uid = NoUid
                THEN [call EXCEPT !.pc = "done", !.result = "unauthenticated"]
                ELSE IF requestId = BadId
                THEN [call EXCEPT !.pc = "done", !.result = "invalid-argument"]
                ELSE [call EXCEPT !.pc = "txnGetReq"]]
    /\ UNCHANGED <<trips, reqs, now, cpr, ctr, sweep, mail, raced, ntf, signup>>

\* lines 342-354: txn.get(reqRef) and the checks on the request
AccTxnGetReq(p) ==
    /\ acc[p].pc = "txnGetReq"
    /\ Quiet
    /\ LET reqSnap == ReqDoc(acc[p].requestId)
           check == AcceptCheckReq(reqSnap)
       IN  IF check # "ok"
           THEN AccEnd(p, check)
           ELSE acc' = [acc EXCEPT ![p].pc = "txnGetTrip", ![p].reqSnap = reqSnap]
    /\ UNCHANGED <<trips, reqs, now, cpr, ctr, sweep, mail, raced, ntf, signup>>

\* (a variant that updates the request before the trip is checked)
AccTxnGetTripEager(p) ==
    /\ acc[p].pc = "txnGetTrip"
    /\ Quiet
    /\ LET tripSnap == TripDoc(acc[p].reqSnap.tripId)
           check == AcceptCheckTrip(tripSnap, acc[p].uid)
       IN  IF check # "ok"
           THEN /\ AccEnd(p, check)
                /\ reqs' = [reqs EXCEPT ![acc[p].requestId].status = "accepted"]
           ELSE /\ acc' = [acc EXCEPT ![p].pc = "txnCommit", ![p].tripSnap = tripSnap]
                /\ UNCHANGED reqs
    /\ UNCHANGED <<trips, now, cpr, ctr, sweep, mail, raced, ntf, signup>>

\* lines 356-367: txn.get(tripRef) and the checks on the trip
AccTxnGetTrip(p) ==
    /\ acc[p].pc = "txnGetTrip"
    /\ Quiet
    /\ LET tripSnap == TripDoc(acc[p].reqSnap.tripId)
           check == AcceptCheckTrip(tripSnap, acc[p].uid)
       IN  IF check # "ok"
           THEN AccEnd(p, check)
           ELSE acc' = [acc EXCEPT ![p].pc = "txnCommit", ![p].tripSnap = tripSnap]
    /\ UNCHANGED <<trips, reqs, now, cpr, ctr, sweep, mail, raced, ntf, signup>>

\* The store commits a transaction only against the document versions it
\* read: here, only if both documents are as the transaction read them.
TxnReadsCurrentStale(p) == TRUE

TxnReadsCurrent(p) ==
    /\ ReqDoc(acc[p].requestId) = acc[p].reqSnap
    /\ TripDoc(acc[p].reqSnap.tripId) = acc[p].tripSnap

\* lines 369-381: the two updates of the transaction
AcceptedRequest(reqData) == [reqData EXCEPT !.status = "accepted"]

PairedTripKeepsGuest(tripData, reqData) ==
    [tripData EXCEPT !.status = "paired"]

PairedTripForgotten(tripData, reqData) == tripData

PairedTrip(tripData, reqData) ==
    [tripData EXCEPT !.guest = GuestSnapshot(reqData), !.status = "paired"]

\* lines 341-382: the transaction commits both updates atomically, or, when a
\* document it read has changed, runTransaction runs the function again
AccTxnCommit(p) ==
    /\ acc[p].pc = "txnCommit"
    /\ Quiet
    /\ IF TxnReadsCurrent(p)
       THEN /\ reqs' = [reqs EXCEPT ![acc[p].requestId] =
                            AcceptedRequest(acc[p].reqSnap)]
            /\ trips' = [trips EXCEPT ![acc[p].reqSnap.tripId] =
                            PairedTrip(acc[p].tripSnap, acc[p].reqSnap)]
            /\ acc' = [acc EXCEPT ![p].pc = "reread", ![p].committed = TRUE,
                                  ![p].reqSnap = NoDoc, ![p].tripSnap = NoDoc,
                                  ![p].owed = PendingOfTrip(acc[p].reqSnap.tripId)
                                                 \ {acc[p].requestId}]
       ELSE /\ acc' = [acc EXCEPT ![p].pc = "txnGetReq",
                                  ![p].reqSnap = NoDoc, ![p].tripSnap = NoDoc]
            /\ UNCHANGED <<trips, reqs, raced, ntf, signup>>
    /\ UNCHANGED <<now, cpr, ctr, sweep, mail, raced, ntf, signup>>

\* lines 385-386: reqRef.get(); data() of a deleted document is undefined and
\* reading its tripId throws, which the callable reports as "internal"
AccReread(p) ==
    /\ acc[p].pc = "reread"
    /\ Quiet
    /\ LET reqSnap == ReqDoc(acc[p].requestId)
       IN  IF ~reqSnap.exists
           THEN AccEnd(p, "internal")
           ELSE acc' = [acc EXCEPT ![p].pc = "query", ![p].tripId = reqSnap.tripId]
    /\ UNCHANGED <<trips, reqs, now, cpr, ctr, sweep, mail, raced, ntf, signup>>

\* lines 387-392: the query for the pending requests of the trip
AccQuery(p) ==
    /\ acc[p].pc = "query"
    /\ Quiet
    /\ acc' = [acc EXCEPT ![p].pc = "batch", ![p].pending = PendingOfTrip(acc[p].tripId)]
    /\ UNCHANGED <<trips, reqs, now, cpr, ctr, sweep, mail, raced, ntf, signup>>

\* lines 394-397: the documents the batch updates
DeclineTargetsAll(pending, requestId) == pending

DeclineTargets(pending, requestId) == pending \ {requestId}

\* batch.update fails the whole batch when one of its documents is gone
BatchCanCommit(targets) == \A r \in targets : ReqDoc(r).exists

\* lines 394-402: the batch is committed unless the query was empty; a failed
\* commit is caught and logged; the call returns {ok: true}
AccBatch(p) ==
    /\ acc[p].pc = "batch"
    /\ Quiet
    /\ LET targets == DeclineTargets(acc[p].pending, acc[p].requestId)
           commits == acc[p].pending # {} /\ BatchCanCommit(targets)
       IN  /\ reqs' = IF commits
                      THEN [r \in ReqIds |->
                               IF r \in targets
                               THEN [reqs[r] EXCEPT !.status = "declined"]
                               ELSE reqs[r]]
                      ELSE reqs
           /\ acc' = [acc EXCEPT ![p].pc = "done", ![p].result = "ok",
                                 ![p].batchFailed = acc[p].pending # {} /\ ~commits]
    /\ UNCHANGED <<trips, now, cpr, ctr, sweep, mail, raced, ntf, signup>>

\* line 385: reqRef.get() rejects; the await is outside any try, the
\* rejection leaves the handler and the callable reports "internal"
AccRereadFails(p) ==
    /\ acc[p].pc = "reread"
    /\ Quiet
    /\ AccEnd(p, "internal")
    /\ UNCHANGED <<trips, reqs, now, cpr, ctr, sweep, mail, raced, ntf, signup>>

\* lines 387-392: the pending query rejects, outside any try as well
AccQueryFails(p) ==
    /\ acc[p].pc = "query"
    /\ Quiet
    /\ AccEnd(p, "internal")
    /\ UNCHANGED <<trips, reqs, now, cpr, ctr, sweep, mail, raced, ntf, signup>>

\* lines 398-402: batch.commit() rejects; .catch logs it, the call returns ok
AccBatchFails(p) ==
    /\ acc[p].pc = "batch"
    /\ Quiet
    /\ acc[p].pending # {}
    /\ acc' = [acc EXCEPT ![p].pc = "done", ![p].result = "ok",
                          ![p].batchFailed = TRUE]
    /\ UNCHANGED <<trips, reqs, now, cpr, ctr, sweep, mail, raced, ntf, signup>>

(* ------------------------------------------------------------------ *)
(* Payload values                                                      *)
(* ------------------------------------------------------------------ *)
\* String.prototype.trim on the strings the model uses
Trim(s) ==
    CASE s = " " -> ""
      [] s = " ann " -> "ann"
      [] s = " 555 " -> "555"
      [] s = " hi " -> "hi"
      [] OTHER -> s

\* typeof value === "string" && value.trim() is not empty
IsFilledString(s) == s # Undefined /\ s # Null /\ Trim(s) # ""

\* a JavaScript value of a luggage count
Num(n) == [t |-> "number", v |-> n]
NaNValue == [t |-> "NaN", v |-> 0]
InfinityValue == [t |-> "Infinity", v |-> 0]
StringValue == [t |-> "string", v |-> 1]
UndefinedValue == [t |-> "undefined", v |-> 0]

\* line 72: isFiniteNonNegative
isFiniteNonNegative(value) == value.t = "number" /\ value.v >= 0

NoLuggage == [t |-> "undefined"]
Luggage(a, b, c, d) ==
    [t |-> "object", carryOnSmall |-> a, carryOnLarge |-> b,
     checkedSmall |-> c, checkedLarge |-> d]

\* lines 90-93 and 254-257: an unknown or missing method becomes "chat"
validMethods == {"chat", "email", "phone"}
\* (a variant that keeps the method as it was sent)
ContactMethodAsSent(m) == m
ContactMethod(m) == IF m \in validMethods THEN m ELSE "chat"

\* lines 95-107 and 259-271: the contact value, or "<throw>" for the
\* invalid-argument failure
ContactValue(method, value, tokenEmail) ==
    IF method \in {"email", "phone"}
    THEN IF ~IsFilledString(value)
         THEN IF method = "email" /\ tokenEmail # Undefined
              THEN tokenEmail
              ELSE "<throw>"
         ELSE Trim(value)
    ELSE Null

\* a departure time of a payload: an ISO string of the time v, a string that
\* is no date, or a value that is no string or is empty
IsoTime(v) == [t |-> "iso", v |-> v]
GarbageTime == [t |-> "garbage", v |-> 0]
MissingTime == [t |-> "undefined", v |-> 0]

\* line 75: isIsoString only asks for a non-empty string
isIsoString(value) == value.t \in {"iso", "garbage"}

\* request.auth of an authenticated caller
Auth(uid, email, name) == [uid |-> uid, email |-> email, name |-> name]
NoAuth == Auth(NoUid, Undefined, Undefined)

(* ------------------------------------------------------------------ *)
(* createTrip                                                          *)
(* ------------------------------------------------------------------ *)
\* line 293: the cap on a host's active trips
ActiveTripCap == 5

\* a payload with no field at all
NoTripData ==
    [originOk |-> FALSE, destinationOk |-> FALSE,
     departureStart |-> MissingTime, departureEnd |-> MissingTime,
     luggageOk |-> FALSE, hostContactMethod |-> Undefined,
     hostContactValue |-> Undefined]

CtrIdle ==
    [id |-> BadId,
     pc |-> "idle",
     auth |-> NoAuth,
     doc |-> NoDoc,
     result |-> "none",
     data |-> NoTripData]

CtrEnd(p, outcome, id) ==
    ctr' = [ctr EXCEPT ![p].pc = "done", ![p].result = outcome, ![p].id = id]

\* (a variant that looks at the payload before the caller)
CreateTripCheckPayloadFirst(auth, data) ==
    IF ~data.originOk THEN "invalid-argument"
    ELSE IF ~data.destinationOk THEN "invalid-argument"
    ELSE IF ~isIsoString(data.departureStart) \/ ~isIsoString(data.departureEnd)
         THEN "invalid-argument"
    ELSE IF auth.uid = NoUid THEN "unauthenticated"
    ELSE IF ContactValue(ContactMethod(data.hostContactMethod),
                         data.hostContactValue, auth.email) = "<throw>"
         THEN "invalid-argument"
    ELSE IF ~data.luggageOk THEN "invalid-argument"
    ELSE "ok"

\* lines 235-282: the caller and payload checks, in the order of the code
CreateTripCheck(auth, data) ==
    IF auth.uid = NoUid THEN "unauthenticated"
    ELSE IF ~data.originOk THEN "invalid-argument"
    ELSE IF ~data.destinationOk THEN "invalid-argument"
    ELSE IF ~isIsoString(data.departureStart) \/ ~isIsoString(data.departureEnd)
         THEN "invalid-argument"
    ELSE IF ContactValue(ContactMethod(data.hostContactMethod),
                         data.hostContactValue, auth.email) = "<throw>"
         THEN "invalid-argument"
    ELSE IF ~data.luggageOk THEN "invalid-argument"
    ELSE "ok"

\* lines 303-318: the document createTrip adds
NewTrip(auth, data) ==
    [exists |-> TRUE,
     status |-> "open",
     hostId |-> auth.uid,
     guest |-> NullGuest,
     departureEnd |-> data.departureEnd.v,
     hostContactMethod |-> ContactMethod(data.hostContactMethod),
     hostContactValue |-> ContactValue(ContactMethod(data.hostContactMethod),
                                       data.hostContactValue, auth.email),
     validDates |-> data.departureStart.t = "iso" /\ data.departureEnd.t = "iso"]

\* (a variant that counts open trips only)
ActiveTripsOpenOnly(uid) ==
    {t \in TripIds : /\ trips[t].exists
                     /\ trips[t].hostId = uid
                     /\ trips[t].status = "open"
                     /\ trips[t].departureEnd >= now}

\* (a variant without the filter on departureEnd)
ActiveTripsAnyTime(uid) ==
    {t \in TripIds : /\ trips[t].exists
                     /\ trips[t].hostId = uid
                     /\ trips[t].status \in {"open", "paired"}}

\* lines 285-291: the host's trips that are open or paired and not yet over
ActiveTrips(uid) ==
    {t \in TripIds : /\ trips[t].exists
                     /\ trips[t].hostId = uid
                     /\ trips[t].status \in {"open", "paired"}
                     /\ trips[t].departureEnd >= now}

\* createTrip up to its first await; maxTrips bounds the ids of the model
CtrStart(p, auth, data, maxTrips) ==
    /\ ctr[p].pc = "idle"
    /\ Quiet
    /\ InFlight < MaxInFlight
    /\ Len(trips) + Cardinality({q \in DOMAIN ctr : ctr[q].pc \in {"count", "add"}})
          < maxTrips
    /\ LET check == CreateTripCheck(auth, data)
       IN  ctr' = [ctr EXCEPT ![p] =
                IF check # "ok"
                THEN [CtrIdle EXCEPT !.pc = "done", !.auth = auth, !.data = data,
                                     !.result = check]
                ELSE [CtrIdle EXCEPT !.pc = "count", !.auth = auth, !.data = data,
                                     !.doc = NewTrip(auth, data)]]
    /\ UNCHANGED <<trips, reqs, now, acc, cpr, sweep, mail, raced, ntf, signup>>

\* lines 285-298: the count of active trips and the cap
CtrCount(p) ==
    /\ ctr[p].pc = "count"
    /\ Quiet
    /\ IF Cardinality(ActiveTrips(ctr[p].auth.uid)) >= ActiveTripCap
       THEN CtrEnd(p, "resource-exhausted", BadId) /\ UNCHANGED raced
       ELSE /\ ctr' = [ctr EXCEPT ![p].pc = "add"]
            /\ raced' = IF CallsOfHost(ctr[p].auth.uid) # {}
                        THEN [raced EXCEPT !.hosts = @ \cup {ctr[p].auth.uid}]
                        ELSE raced
    /\ UNCHANGED <<trips, reqs, now, acc, cpr, sweep, mail, ntf, signup>>

\* lines 300-320: the trip is added and its id returned; new Date of a string
\* that is no date is an Invalid Date, which the store refuses to write
CtrAdd(p) ==
    /\ ctr[p].pc = "add"
    /\ Quiet
    /\ IF ctr[p].doc.validDates
       THEN /\ trips' = Append(trips, [x \in DOMAIN ctr[p].doc \ {"validDates"} |->
                                          ctr[p].doc[x]])
            /\ CtrEnd(p, "ok", Len(trips) + 1)
       ELSE /\ CtrEnd(p, "internal", BadId)
            /\ UNCHANGED trips
    /\ UNCHANGED <<reqs, now, acc, cpr, sweep, mail, raced, ntf, signup>>

(* ------------------------------------------------------------------ *)
(* createPairRequest                                                   *)
(* ------------------------------------------------------------------ *)
\* a payload with no field at all
NoPairData ==
    [tripId |-> BadId,
     requesterName |-> Undefined,
     luggage |-> NoLuggage,
     note |-> Undefined,
     requesterContactMethod |-> Undefined,
     requesterContactValue |-> Undefined]

CprIdle ==
    [id |-> BadId,
     pc |-> "idle",
     auth |-> NoAuth,
     doc |-> NoDoc,
     result |-> "none",
     data |-> NoPairData]

CprEnd(p, outcome, id) ==
    cpr' = [cpr EXCEPT ![p].pc = "done", ![p].result = outcome, ![p].id = id]

\* lines 78-123: the payload checks, in the order of the code
CreatePairRequestCheck(auth, data) ==
    IF auth.uid = NoUid THEN "unauthenticated"
    ELSE IF data.tripId = BadId THEN "invalid-argument"
    ELSE IF ContactValue(ContactMethod(data.requesterContactMethod),
                         data.requesterContactValue, auth.email) = "<throw>"
         THEN "invalid-argument"
    ELSE IF \/ data.luggage.t # "object"
            \/ ~isFiniteNonNegative(data.luggage.carryOnSmall)
            \/ ~isFiniteNonNegative(data.luggage.carryOnLarge)
            \/ ~isFiniteNonNegative(data.luggage.checkedSmall)
            \/ ~isFiniteNonNegative(data.luggage.checkedLarge)
         THEN "invalid-argument"
    ELSE "ok"

\* lines 169-171: the requester's display name
RequesterDisplayName(auth, data) ==
    IF IsFilledString(data.requesterName) THEN Trim(data.requesterName)
    ELSE IF auth.name # Undefined THEN auth.name
    ELSE "Anonymous"

\* lines 173-186: the document createPairRequest adds; hostId is filled in
\* from the trip once it is read
NewPairRequest(auth, data) ==
    [exists |-> TRUE,
     tripId |-> data.tripId,
     status |-> "pending",
     hostId |-> Undefined,
     requesterId |-> auth.uid,
     requesterName |-> RequesterDisplayName(auth, data),
     luggage |-> data.luggage,
     note |-> IF IsFilledString(data.note) THEN Trim(data.note) ELSE Null,
     requesterContactMethod |-> ContactMethod(data.requesterContactMethod),
     requesterContactValue |-> ContactValue(ContactMethod(data.requesterContactMethod),
                                            data.requesterContactValue, auth.email)]

\* createPairRequest up to its first await; maxReqs bounds the ids of the model
CprStart(p, auth, data, maxReqs) ==
    /\ cpr[p].pc = "idle"
    /\ Quiet
    /\ InFlight < MaxInFlight
    /\ Len(reqs) + Cardinality({q \in DOMAIN cpr :
                                  cpr[q].pc \in {"getTrip", "findExisting", "add"}})
          < maxReqs
    /\ LET check == CreatePairRequestCheck(auth, data)
       IN  cpr' = [cpr EXCEPT ![p] =
                IF check # "ok"
                THEN [CprIdle EXCEPT !.pc = "done", !.auth = auth, !.data = data,
                                     !.result = check]
                ELSE [CprIdle EXCEPT !.pc = "getTrip", !.auth = auth, !.data = data,
                                     !.doc = NewPairRequest(auth, data)]]
    /\ UNCHANGED <<trips, reqs, now, acc, ctr, sweep, mail, raced, ntf, signup>>

\* (a variant without the check of the trip's hostId)
CreatePairRequestCheckTripNoHost(tripSnap, uid) ==
    IF ~tripSnap.exists THEN "not-found"
    ELSE IF tripSnap.status # Undefined /\ tripSnap.status # "open"
         THEN "failed-precondition"
    ELSE IF tripSnap.hostId = uid THEN "failed-precondition"
    ELSE "ok"

\* (a variant that lets the host request the own trip)
CreatePairRequestCheckTripAnyCaller(tripSnap, uid) ==
    IF ~tripSnap.exists THEN "not-found"
    ELSE IF tripSnap.hostId = Undefined THEN "failed-precondition"
    ELSE IF tripSnap.status # Undefined /\ tripSnap.status # "open"
         THEN "failed-precondition"
    ELSE "ok"

\* lines 126-154: the checks on the trip
CreatePairRequestCheckTrip(tripSnap, uid) ==
    IF ~tripSnap.exists THEN "not-found"
    ELSE IF tripSnap.hostId = Undefined THEN "failed-precondition"
    ELSE IF tripSnap.status # Undefined /\ tripSnap.status # "open"
         THEN "failed-precondition"
    ELSE IF tripSnap.hostId = uid THEN "failed-precondition"
    ELSE "ok"

\* lines 125-154: the trip is read and checked
CprGetTrip(p) ==
    /\ cpr[p].pc = "getTrip"
    /\ Quiet
    /\ LET tripSnap == TripDoc(cpr[p].doc.tripId)
           check == CreatePairRequestCheckTrip(tripSnap, cpr[p].auth.uid)
       IN  IF check # "ok"
           THEN CprEnd(p, check, BadId)
           ELSE cpr' = [cpr EXCEPT ![p].pc = "findExisting",
                                   ![p].doc.hostId = tripSnap.hostId]
    /\ UNCHANGED <<trips, reqs, now, acc, ctr, sweep, mail, raced, ntf, signup>>

\* (a variant that looks for pending requests only)
ActiveRequestsPendingOnly(t, uid) ==
    {r \in ReqsOfTrip(t) : /\ reqs[r].requesterId = uid
                           /\ reqs[r].status = "pending"}

\* lines 156-163: the caller's pending or accepted requests on the trip
ActiveRequests(t, uid) ==
    {r \in ReqsOfTrip(t) : /\ reqs[r].requesterId = uid
                           /\ reqs[r].status \in {"pending", "accepted"}}

\* lines 156-167: the duplicate check
CprFindExisting(p) ==
    /\ cpr[p].pc = "findExisting"
    /\ Quiet
    /\ IF ActiveRequests(cpr[p].doc.tripId, cpr[p].auth.uid) # {}
       THEN CprEnd(p, "already-exists", BadId) /\ UNCHANGED raced
       ELSE /\ cpr' = [cpr EXCEPT ![p].pc = "add"]
            /\ raced' = IF CallsOnTrip(cpr[p].auth.uid, cpr[p].doc.tripId) # {}
                        THEN [raced EXCEPT !.pairs =
                                 @ \cup {<<cpr[p].doc.tripId, cpr[p].auth.uid>>}]
                        ELSE raced
    /\ UNCHANGED <<trips, reqs, now, acc, ctr, sweep, mail, ntf, signup>>

\* lines 173-186: the request is added
CprAdd(p) ==
    /\ cpr[p].pc = "add"
    /\ Quiet
    /\ reqs' = Append(reqs, cpr[p].doc)
    /\ cpr' = [cpr EXCEPT ![p].pc = "countPending", ![p].id = Len(reqs) + 1]
    /\ UNCHANGED <<trips, now, acc, ctr, sweep, mail, raced, ntf, signup>>

\* lines 188-193: the count of the host's pending requests, for the mail text
CprCountPending(p) ==
    /\ cpr[p].pc = "countPending"
    /\ Quiet
    /\ cpr' = [cpr EXCEPT ![p].pc = "notify"]
    /\ UNCHANGED <<trips, reqs, now, acc, ctr, sweep, mail, raced, ntf, signup>>

\* lines 197-231: the host is looked up and, when the record has an email,
\* one mail is enqueued; every failure in here is caught; the id is returned
CprNotify(p, hostHasEmail) ==
    /\ cpr[p].pc = "notify"
    /\ Quiet
    /\ mail' = IF hostHasEmail THEN mail \cup {now} ELSE mail
    /\ CprEnd(p, "ok", cpr[p].id)
    /\ UNCHANGED <<trips, reqs, now, acc, ctr, sweep, raced, ntf, signup>>

\* lines 188-193: the query rejects; the await is in no try, the rejection
\* leaves the handler after the request was added
CprCountPendingFails(p) ==
    /\ cpr[p].pc = "countPending"
    /\ Quiet
    /\ CprEnd(p, "internal", cpr[p].id)
    /\ UNCHANGED <<trips, reqs, now, acc, ctr, sweep, mail, raced, ntf, signup>>

\* lines 197-226: getUser or the mail add rejects; the catch logs it and the
\* id is returned
CprNotifyFails(p) ==
    /\ cpr[p].pc = "notify"
    /\ Quiet
    /\ CprEnd(p, "ok", cpr[p].id)
    /\ UNCHANGED <<trips, reqs, now, acc, ctr, sweep, mail, raced, ntf, signup>>

(* ------------------------------------------------------------------ *)
(* restrictUserSignupByDomain                                          *)
(* ------------------------------------------------------------------ *)
\* A string is the sequence of its characters.
LowerChar(c) ==
    CASE c = "A" -> "a"
      [] c = "B" -> "b"
      [] OTHER -> c

\* String.prototype.toLowerCase
toLowerCase(s) == [i \in DOMAIN s |-> LowerChar(s[i])]

RECURSIVE trimStart(_)
trimStart(s) ==
    IF s # <<>> /\ Head(s) = " " THEN trimStart(Tail(s)) ELSE s

RECURSIVE trimEnd(_)
trimEnd(s) ==
    IF s # <<>> /\ s[Len(s)] = " " THEN trimEnd(SubSeq(s, 1, Len(s) - 1)) ELSE s

\* String.prototype.trim
trim(s) == trimEnd(trimStart(s))

\* String.prototype.split("@"): the pieces between the separators
RECURSIVE split(_)
split(s) ==
    IF \A i \in DOMAIN s : s[i] # "@"
    THEN <<s>>
    ELSE LET i == CHOOSE k \in DOMAIN s :
                      s[k] = "@" /\ \A j \in 1..(k - 1) : s[j] # "@"
         IN  <<SubSeq(s, 1, i - 1)>> \o split(SubSeq(s, i + 1, Len(s)))

\* line 17, in the unit of the instance's clock (30 s)
CACHE_TTL_MS == 2

\* (a variant that does not look at the entries)
IsDomainListAnyEntries(domains) == domains.t = "array"

\* line 29: the field is an array of strings
IsDomainList(domains) ==
    /\ domains.t = "array"
    /\ \A i \in DOMAIN domains.items : domains.items[i].t = "string"

\* (a variant that does not trim)
NormalisedDomainsUntrimmed(domains) ==
    [i \in DOMAIN domains.items |-> toLowerCase(domains.items[i].v)]

\* line 36: domains.map((domain) => domain.toLowerCase().trim())
NormalisedDomains(domains) ==
    [i \in DOMAIN domains.items |-> trim(toLowerCase(domains.items[i].v))]

\* line 49: user.email.split("@")[1]?.toLowerCase()
userDomain(email) ==
    LET parts == split(email)
    IN  IF Len(parts) >= 2 THEN Some(toLowerCase(parts[2])) ELSE None

\* line 51: !userDomain || !allowedDomains.includes(userDomain)
DomainRefused(email, allowedDomains) ==
    \/ userDomain(email) = None
    \/ userDomain(email) = Some(<<>>)
    \/ \A i \in DOMAIN allowedDomains :
          Some(allowedDomains[i]) # userDomain(email)

SignupEnd(outcome) ==
    signup' = [signup EXCEPT !.pc = "done", !.result = outcome]

\* lines 41-46: the user and its email
SignupStart(user) ==
    /\ signup.pc = "idle"
    /\ IF ~user.exists \/ user.email = None \/ user.email = Some(<<>>)
       THEN signup' = [signup EXCEPT !.pc = "done", !.user = user,
                                     !.result = "invalid-argument"]
       ELSE signup' = [signup EXCEPT !.pc = "domains", !.user = user]
    /\ UNCHANGED <<trips, reqs, now, acc, cpr, ctr, sweep, mail, ntf, raced>>

\* line 37: the time stored with the list is the one taken at line 20,
\* before the read
FetchTimeAtStore(captured, atStore) == atStore

FetchTime(captured, atStore) == captured

\* line 21: the cached list is used
CacheFresh ==
    /\ signup.cachedDomains # None
    /\ signup.clock - signup.lastFetchMs < CACHE_TTL_MS

\* lines 20-24: the cached list while it is younger than the TTL, else a read
SignupGetAllowedDomains ==
    /\ signup.pc = "domains"
    /\ IF CacheFresh
       THEN signup' = [signup EXCEPT !.pc = "check",
                                     !.allowedDomains = signup.cachedDomains[1],
                                     !.usedRaw = signup.cachedRaw,
                                     !.usedAt = signup.cachedAt]
       ELSE signup' = [signup EXCEPT !.pc = "fetch", !.now = signup.clock]
    /\ UNCHANGED <<trips, reqs, now, acc, cpr, ctr, sweep, mail, ntf, raced>>

\* lines 26-39: the configuration is read, checked, normalised and cached
\* with the time taken before the read
SignupFetch ==
    /\ signup.pc = "fetch"
    /\ IF ~IsDomainList(signup.config)
       THEN signup' = [signup EXCEPT !.pc = "done", !.read = signup.config,
                                     !.fetched = TRUE,
                                     !.result = "failed-precondition"]
       ELSE signup' = [signup EXCEPT
                          !.pc = "check", !.read = signup.config,
                          !.fetched = TRUE,
                          !.cachedDomains = Some(NormalisedDomains(signup.config)),
                          !.lastFetchMs = FetchTime(signup.now, signup.clock),
                          !.allowedDomains = NormalisedDomains(signup.config),
                          !.cachedRaw = signup.config,
                          !.cachedAt = signup.clock,
                          !.usedRaw = signup.config,
                          !.usedAt = signup.clock,
                          !.latestStart = IF signup.latestStart >= signup.now
                                          THEN signup.latestStart
                                          ELSE signup.now]
    /\ UNCHANGED <<trips, reqs, now, acc, cpr, ctr, sweep, mail, ntf, raced>>

\* lines 20-25 in another invocation while this one is between two awaits:
\* a stale or empty cache sends it to the store
PeerGetAllowedDomains ==
    /\ signup.pc \in {"idle", "fetch"}
    /\ signup.peer.pc = "idle"
    /\ ~CacheFresh
    /\ signup' = [signup EXCEPT !.peer.pc = "read", !.peer.now = signup.clock]
    /\ UNCHANGED <<trips, reqs, now, acc, cpr, ctr, sweep, mail, ntf, raced>>

\* line 26 in the other invocation: the store answers the read
PeerRead ==
    /\ signup.pc \in {"idle", "fetch"}
    /\ signup.peer.pc = "read"
    /\ signup' = [signup EXCEPT !.peer.pc = "store",
                                !.peer.snapshot = signup.config,
                                !.peer.readAt = signup.clock]
    /\ UNCHANGED <<trips, reqs, now, acc, cpr, ctr, sweep, mail, ntf, raced>>

\* lines 28-38 in the other invocation, some time after the answer: the list
\* it read is checked, normalised and cached with the time it took at line 20
PeerStore ==
    /\ signup.pc \in {"idle", "fetch"}
    /\ signup.peer.pc = "store"
    /\ IF ~IsDomainList(signup.peer.snapshot)
       THEN signup' = [signup EXCEPT !.peer = PeerIdle]
       ELSE signup' = [signup EXCEPT
                          !.peer = PeerIdle,
                          !.cachedDomains =
                              Some(NormalisedDomains(signup.peer.snapshot)),
                          !.lastFetchMs =
                              FetchTime(signup.peer.now, signup.clock),
                          !.cachedRaw = signup.peer.snapshot,
                          !.cachedAt = signup.peer.readAt,
                          !.latestStart =
                              IF signup.latestStart >= signup.peer.now
                              THEN signup.latestStart
                              ELSE signup.peer.now]
    /\ UNCHANGED <<trips, reqs, now, acc, cpr, ctr, sweep, mail, ntf, raced>>

\* lines 49-58: the domain of the email against the list
SignupCheck ==
    /\ signup.pc = "check"
    /\ IF DomainRefused(signup.user.email[1], signup.allowedDomains)
       THEN SignupEnd("permission-denied")
       ELSE SignupEnd("ok")
    /\ UNCHANGED <<trips, reqs, now, acc, cpr, ctr, sweep, mail, ntf, raced>>

SignupReturn ==
    /\ signup.pc = "done"
    /\ signup' = [signup EXCEPT !.pc = "idle", !.result = "none",
                                !.user = [exists |-> FALSE, email |-> None],
                                !.now = 0, !.allowedDomains = <<>>,
                                !.fetched = FALSE,
                                !.usedRaw = MissingConfig, !.usedAt = 0]
    /\ UNCHANGED <<trips, reqs, now, acc, cpr, ctr, sweep, mail, ntf, raced>>

(* ------------------------------------------------------------------ *)
(* notifyPairAcceptance                                                *)
(* ------------------------------------------------------------------ *)
NtfEnd(outcome) ==
    ntf' = [ntf EXCEPT !.pc = "done", !.result = outcome]

\* (a variant that does not compare the two statuses)
NotifyProceedsAlways(beforeStatus, afterData) == afterData.exists

\* lines 507-513: nothing to do without data after the update or when the
\* status did not change
NotifyProceeds(beforeStatus, afterData) ==
    afterData.exists /\ beforeStatus # afterData.status

\* lines 506-520: the event is read; no await so far
NtfStart(beforeStatus, afterData) ==
    /\ ntf.pc = "idle"
    /\ Quiet
    /\ LET call == [NtfIdle EXCEPT !.beforeStatus = beforeStatus,
                                   !.afterData = afterData]
       IN  ntf' = IF \/ ~NotifyProceeds(beforeStatus, afterData)
                    \/ afterData.requesterId = Undefined
                    \/ afterData.tripId = BadId
                 THEN [call EXCEPT !.pc = "done", !.result = "ok"]
                 ELSE [call EXCEPT !.pc = "getTrip"]
    /\ UNCHANGED <<trips, reqs, now, acc, cpr, ctr, sweep, mail, raced, signup>>

\* lines 522-525: the trip is read; without it there is nothing to send;
\* lines 529, 567: the branch on the new status
NtfGetTrip ==
    /\ ntf.pc = "getTrip"
    /\ LET tripData == TripDoc(ntf.afterData.tripId)
       IN  ntf' = IF ~tripData.exists
                 THEN [ntf EXCEPT !.pc = "done", !.result = "ok"]
                 ELSE IF ntf.afterData.status = "accepted"
                 THEN [ntf EXCEPT !.pc = "guestLookup", !.tripData = tripData]
                 ELSE IF ntf.afterData.status = "declined"
                 THEN [ntf EXCEPT !.pc = "declineLookup", !.tripData = tripData]
                 ELSE [ntf EXCEPT !.pc = "done", !.result = "ok"]
    /\ UNCHANGED <<trips, reqs, now, acc, cpr, ctr, sweep, mail, raced, signup>>

\* line 522: the read of the trip rejects; the await is in no try, the
\* rejection leaves the handler
NtfGetTripFails ==
    /\ ntf.pc = "getTrip"
    /\ NtfEnd("error")
    /\ UNCHANGED <<trips, reqs, now, acc, cpr, ctr, sweep, mail, raced, signup>>

\* what getUser gives: a user with an email, one without, or a rejection
LookupOutcomes == {"email", "no email", "rejected"}

\* lines 531-533, 543-545: getUser(requesterId); a rejection is caught
NtfGuestLookup(outcome) ==
    /\ ntf.pc = "guestLookup"
    /\ ntf' = [ntf EXCEPT !.pc = IF outcome = "email" THEN "guestSend"
                                 ELSE "hostLookup"]
    /\ UNCHANGED <<trips, reqs, now, acc, cpr, ctr, sweep, mail, raced, signup>>

\* lines 452, 484, 571: collection("mail").add puts one more document next
\* to those there are, or rejects and puts none
MailSet(added) == IF added THEN {now} ELSE mail

MailAdd(added) == IF added THEN mail \cup {now} ELSE mail

\* lines 535-541: sendGuestAcceptanceEmail adds one mail; a rejection is caught
NtfGuestSend(added) ==
    /\ ntf.pc = "guestSend"
    /\ mail' = MailAdd(added)
    /\ ntf' = [ntf EXCEPT !.pc = "hostLookup",
                          !.toRequester = IF added THEN @ + 1 ELSE @]
    /\ UNCHANGED <<trips, reqs, now, acc, cpr, ctr, sweep, raced, signup>>

\* lines 548-551, 562-564: getUser(hostId) when the trip has a hostId; a rejection is
\* caught
NtfHostLookup(outcome) ==
    /\ ntf.pc = "hostLookup"
    /\ ntf' = IF ntf.tripData.hostId # Undefined /\ outcome = "email"
              THEN [ntf EXCEPT !.pc = "hostSend"]
              ELSE [ntf EXCEPT !.pc = "done", !.result = "ok"]
    /\ UNCHANGED <<trips, reqs, now, acc, cpr, ctr, sweep, mail, raced, signup>>

\* lines 553-559: sendHostAcceptanceEmail adds one mail; a rejection is caught
NtfHostSend(added) ==
    /\ ntf.pc = "hostSend"
    /\ mail' = MailAdd(added)
    /\ ntf' = [ntf EXCEPT !.pc = "done", !.result = "ok",
                          !.toHost = IF added THEN @ + 1 ELSE @]
    /\ UNCHANGED <<trips, reqs, now, acc, cpr, ctr, sweep, raced, signup>>

\* lines 568-570, 583-585: getUser(requesterId); a rejection is caught
NtfDeclineLookup(outcome) ==
    /\ ntf.pc = "declineLookup"
    /\ ntf' = IF outcome = "email"
              THEN [ntf EXCEPT !.pc = "declineSend"]
              ELSE [ntf EXCEPT !.pc = "done", !.result = "ok"]
    /\ UNCHANGED <<trips, reqs, now, acc, cpr, ctr, sweep, mail, raced, signup>>

\* lines 571-581: one mail to the requester; a rejection is caught
NtfDeclineSend(added) ==
    /\ ntf.pc = "declineSend"
    /\ mail' = MailAdd(added)
    /\ ntf' = [ntf EXCEPT !.pc = "done", !.result = "ok",
                          !.toRequester = IF added THEN @ + 1 ELSE @]
    /\ UNCHANGED <<trips, reqs, now, acc, cpr, ctr, sweep, raced, signup>>

NtfReturn ==
    /\ ntf.pc = "done"
    /\ ntf' = NtfIdle
    /\ UNCHANGED <<trips, reqs, now, acc, cpr, ctr, sweep, mail, raced, signup>>

(* ------------------------------------------------------------------ *)
(* cleanupStaleData                                                    *)
(* ------------------------------------------------------------------ *)
SweepIdle ==
    [reqs |-> {},
     pc |-> "idle",
     result |-> "none",
     cutoffOpenTrip |-> 0,
     cutoffAllTrip |-> 0,
     cutoffMail |-> 0,
     tripsToDelete |-> <<>>,
     mailDeletes |-> 0,
     inBoth |-> {}]

SweepEnd(outcome) ==
    sweep' = [sweep EXCEPT !.pc = "done", !.result = outcome]

\* a query with an inequality on departureEnd returns its documents ordered
\* by departureEnd, then by id
RECURSIVE OrderByDepartureEnd(_)
OrderByDepartureEnd(S) ==
    IF S = {} THEN <<>>
    ELSE LET first == CHOOSE t \in S : \A u \in S :
                         \/ trips[t].departureEnd < trips[u].departureEnd
                         \/ /\ trips[t].departureEnd = trips[u].departureEnd
                            /\ t <= u
         IN  <<first>> \o OrderByDepartureEnd(S \ {first})

\* (a variant without the filter on the status)
StaleOpenTripsAnyStatus(cutoff) ==
    {t \in TripIds : trips[t].exists /\ trips[t].departureEnd < cutoff}

\* lines 602-606: open trips whose departureEnd is before the cutoff
StaleOpenTrips(cutoff) ==
    {t \in TripIds : /\ trips[t].exists
                     /\ trips[t].status = "open"
                     /\ trips[t].departureEnd < cutoff}

\* lines 608-611: trips of any status whose departureEnd is before the cutoff
StaleTrips(cutoff) ==
    {t \in TripIds : trips[t].exists /\ trips[t].departureEnd < cutoff}

\* (a variant that appends the whole second result)
MergeTripsNoFind(open, all) == open \o all

\* lines 613-618: the second result is appended without the ids of the first
MergeTrips(open, all) ==
    open \o SelectSeq(all, LAMBDA t : \A i \in DOMAIN open : open[i] # t)

\* lines 595-599: the cutoffs are computed from the clock
SweepStart ==
    /\ sweep.pc = "idle"
    /\ Quiet
    /\ InFlight < MaxInFlight
    /\ sweep' = [SweepIdle EXCEPT
                    !.pc = "queryOpen",
                    !.cutoffOpenTrip = now - 1 * DAY,
                    !.cutoffAllTrip = (now - 1 * DAY) - 2 * DAY,
                    !.cutoffMail = now - 7 * DAY]
    /\ UNCHANGED <<trips, reqs, now, acc, cpr, ctr, mail, raced, ntf, signup>>

\* lines 602-606
SweepQueryOpen ==
    /\ sweep.pc = "queryOpen"
    /\ Quiet
    /\ sweep' = [sweep EXCEPT
                    !.pc = "queryAll",
                    !.tripsToDelete =
                        OrderByDepartureEnd(StaleOpenTrips(sweep.cutoffOpenTrip))]
    /\ UNCHANGED <<trips, reqs, now, acc, cpr, ctr, mail, raced, ntf, signup>>

\* lines 608-618; inBoth remembers the trips that both queries returned
SweepQueryAll ==
    /\ sweep.pc = "queryAll"
    /\ Quiet
    /\ LET all == OrderByDepartureEnd(StaleTrips(sweep.cutoffAllTrip))
           merged == MergeTrips(sweep.tripsToDelete, all)
       IN  sweep' = [sweep EXCEPT
                        !.pc = IF merged = <<>> THEN "mail" ELSE "queryReqs",
                        !.tripsToDelete = merged,
                        !.inBoth = {sweep.tripsToDelete[i] :
                                       i \in DOMAIN sweep.tripsToDelete}
                                   \cap {all[i] : i \in DOMAIN all}]
    /\ UNCHANGED <<trips, reqs, now, acc, cpr, ctr, mail, raced, ntf, signup>>

\* lines 620-626: the pairing requests of the next trip of the list
SweepQueryReqs ==
    /\ sweep.pc = "queryReqs"
    /\ Quiet
    /\ sweep' = [sweep EXCEPT !.pc = "commit",
                              !.reqs = ReqsOfTrip(Head(sweep.tripsToDelete))]
    /\ UNCHANGED <<trips, reqs, now, acc, cpr, ctr, mail, raced, ntf, signup>>

\* lines 628-633: (after the query for the trip's chat messages, which no
\* function of this file writes) the batch deletes the requests and the trip
SweepCommit ==
    /\ sweep.pc = "commit"
    /\ Quiet
    /\ reqs' = [r \in ReqIds |-> IF r \in sweep.reqs THEN NoDoc ELSE reqs[r]]
    /\ trips' = [trips EXCEPT ![Head(sweep.tripsToDelete)] = NoDoc]
    /\ sweep' = [sweep EXCEPT
                    !.pc = IF Tail(sweep.tripsToDelete) = <<>> THEN "mail"
                           ELSE "queryReqs",
                    !.tripsToDelete = Tail(sweep.tripsToDelete),
                    !.reqs = {}]
    /\ UNCHANGED <<now, acc, cpr, ctr, mail, raced, ntf, signup>>

\* line 633: batch.commit() rejects; the await is in no try and has no catch,
\* the rejection ends the handler: the rest of the list and the mail cleanup
\* are not reached
SweepCommitFails ==
    /\ sweep.pc = "commit"
    /\ Quiet
    /\ SweepEnd("error")
    /\ UNCHANGED <<trips, reqs, now, acc, cpr, ctr, mail, raced, ntf, signup>>

\* lines 637-647: the mail documents created before the cutoff
ExpiredMailInclusive(cutoff) == {created \in mail : created <= cutoff}

ExpiredMail(cutoff) == {created \in mail : created < cutoff}

\* lines 636-650: the expired mail documents are deleted in one batch
SweepMail ==
    /\ sweep.pc = "mail"
    /\ Quiet
    /\ mail' = mail \ ExpiredMail(sweep.cutoffMail)
    /\ sweep' = [sweep EXCEPT
                    !.pc = "done", !.result = "ok",
                    !.mailDeletes = Cardinality(ExpiredMail(sweep.cutoffMail))]
    /\ UNCHANGED <<trips, reqs, now, acc, cpr, ctr, raced, ntf, signup>>

\* lines 648-650: mailBatch.commit() is called when there is a mail to
\* delete; it rejects, the catch logs it and the handler ends normally
SweepMailFails ==
    /\ sweep.pc = "mail"
    /\ Quiet
    /\ ExpiredMail(sweep.cutoffMail) # {}
    /\ sweep' = [sweep EXCEPT
                    !.pc = "done", !.result = "ok",
                    !.mailDeletes = Cardinality(ExpiredMail(sweep.cutoffMail))]
    /\ UNCHANGED <<trips, reqs, now, acc, cpr, ctr, mail, raced, ntf, signup>>

(* ------------------------------------------------------------------ *)
(* The outcome reaches the caller and the invocation is over           *)
(* ------------------------------------------------------------------ *)
AccReturn(p) ==
    /\ acc[p].pc = "done"
    /\ acc' = [acc EXCEPT ![p] = AccIdle]
    /\ UNCHANGED <<trips, reqs, now, cpr, ctr, sweep, mail, raced, ntf, signup>>

CprReturn(p) ==
    /\ cpr[p].pc = "done"
    /\ cpr' = [cpr EXCEPT ![p] = CprIdle]
    /\ UNCHANGED <<trips, reqs, now, acc, ctr, sweep, mail, raced, ntf, signup>>

CtrReturn(p) ==
    /\ ctr[p].pc = "done"
    /\ ctr' = [ctr EXCEPT ![p] = CtrIdle]
    /\ UNCHANGED <<trips, reqs, now, acc, cpr, sweep, mail, raced, ntf, signup>>

SweepReturn ==
    /\ sweep.pc = "done"
    /\ sweep' = SweepIdle
    /\ UNCHANGED <<trips, reqs, now, acc, cpr, ctr, mail, raced, ntf, signup>>

(* ------------------------------------------------------------------ *)
(* The system                                                          *)
(* ------------------------------------------------------------------ *)
Init ==
    /\ trips = <<>>
    /\ reqs = <<>>
    /\ now = StartNow
    /\ acc = [p \in 1..NAccept |-> AccIdle]
    /\ cpr = [p \in 1..NCreateReq |-> CprIdle]
    /\ ctr = [p \in 1..NCreateTrip |-> CtrIdle]
    /\ sweep = SweepIdle
    /\ mail = {}
    /\ raced = NoRace
    /\ ntf = NtfIdle
    /\ signup = SignupIdle(MissingConfig)

\* the callers of the model: every user has an email and a display name
Callers == {Auth(u, u, u) : u \in Users}

\* createTrip payloads: a trip over for more than three days, one over for
\* more than a day, and one still to come
TripData(end) ==
    [originOk |-> TRUE, destinationOk |-> TRUE,
     departureStart |-> IsoTime(end), departureEnd |-> IsoTime(end),
     luggageOk |-> TRUE, hostContactMethod |-> "chat", hostContactValue |-> Undefined]

DepartureEnds == {StartNow - 4 * DAY, StartNow - 2 * DAY, StartNow + 1}

\* createPairRequest payloads: one caller fills in every field, the others
\* leave the optional fields out
PairData(uid, t) ==
    IF uid = "gus"
    THEN [tripId |-> t,
          requesterName |-> " ann ",
          luggage |-> Luggage(Num(1), Num(0), Num(0), Num(0)),
          note |-> " hi ",
          requesterContactMethod |-> "phone",
          requesterContactValue |-> " 555 "]
    ELSE [tripId |-> t,
          requesterName |-> Undefined,
          luggage |-> Luggage(Num(0), Num(0), Num(0), Num(2)),
          note |-> Undefined,
          requesterContactMethod |-> Undefined,
          requesterContactValue |-> Undefined]

\* the users who host trips in the model
Hosts == {"hana"}

\* acceptPairRequest is called with the id of a request that was created
\* (and may have been deleted since), with an id the store never assigned, or
\* with no id
UnknownId == MaxReqs + 1

AcceptStep(p) ==
    \/ \E uid \in Users \cup {NoUid}, r \in ReqIds \cup {BadId, UnknownId} :
          AccStart(p, uid, r)
    \/ AccTxnGetReq(p)
    \/ AccTxnGetTrip(p)
    \/ AccTxnCommit(p)
    \/ AccReread(p)
    \/ AccQuery(p)
    \/ AccBatch(p)
    \/ AccReturn(p)

CreatePairRequestStep(p) ==
    \/ \E auth \in Callers, t \in 1..MaxTrips :
          CprStart(p, auth, PairData(auth.uid, t), MaxReqs)
    \/ CprGetTrip(p)
    \/ CprFindExisting(p)
    \/ CprAdd(p)
    \/ CprCountPending(p)
    \/ CprNotify(p, TRUE)
    \/ CprReturn(p)

CreateTripStep(p) ==
    \/ \E auth \in {a \in Callers : a.uid \in Hosts}, end \in DepartureEnds :
          CtrStart(p, auth, TripData(end), MaxTrips)
    \/ CtrCount(p)
    \/ CtrAdd(p)
    \/ CtrReturn(p)

SweepStep ==
    \/ SweepStart
    \/ SweepQueryOpen
    \/ SweepQueryAll
    \/ SweepQueryReqs
    \/ SweepCommit
    \/ SweepMail
    \/ SweepReturn

Next ==
    \/ \E p \in 1..NAccept : AcceptStep(p)
    \/ \E p \in 1..NCreateReq : CreatePairRequestStep(p)
    \/ \E p \in 1..NCreateTrip : CreateTripStep(p)
    \/ SweepStep

Spec == Init /\ [][Next]_vars

\* the same system on a store whose reads, queries and commits may fail
\* after the accept transaction
AcceptFault(p) ==
    \/ AccRereadFails(p)
    \/ AccQueryFails(p)
    \/ AccBatchFails(p)

NextFault ==
    \/ Next
    \/ \E p \in 1..NAccept : AcceptFault(p)

SpecFault == Init /\ [][NextFault]_vars

(* ------------------------------------------------------------------ *)
(* Several createPairRequest calls at a time                           *)
(* ------------------------------------------------------------------ *)
NPairCalls == 2

InitPairs ==
    /\ trips = <<>>
    /\ reqs = <<>>
    /\ now = StartNow
    /\ acc = [p \in 1..1 |-> AccIdle]
    /\ cpr = [p \in 1..NPairCalls |-> CprIdle]
    /\ ctr = [p \in 1..1 |-> CtrIdle]
    /\ sweep = SweepIdle
    /\ mail = {}
    /\ raced = NoRace
    /\ ntf = NtfIdle
    /\ signup = SignupIdle(MissingConfig)

NextPairs ==
    \/ AcceptStep(1)
    \/ \E p \in 1..NPairCalls : CreatePairRequestStep(p)
    \/ CreateTripStep(1)
    \/ SweepStep

SpecPairs == InitPairs /\ [][NextPairs]_vars

(* ------------------------------------------------------------------ *)
(* acceptPairRequest, one call at a time, on a store of any content     *)
(* ------------------------------------------------------------------ *)
\* The collections are also written by the client apps, and the code reads
\* every field as optional (status?: string, tripId: string | undefined): a
\* request may name no trip or a trip that is gone, and a trip may carry no
\* status.
StoredTrip(host, status) ==
    [exists |-> TRUE,
     status |-> status,
     hostId |-> host,
     guest |-> IF status = "paired"
               THEN GuestSnapshot(NewPairRequest(Auth("rio", "rio", "rio"),
                                                 PairData("rio", 1)))
               ELSE NullGuest,
     departureEnd |-> StartNow + 1,
     hostContactMethod |-> "chat",
     hostContactValue |-> Null]

StoredTrips ==
    {NoDoc} \cup {StoredTrip(h, st) : h \in {"hana", "gus"},
                                      st \in {"open", "paired", Undefined}}

StoredRequest(t, status) ==
    [NewPairRequest(Auth("gus", "gus", "gus"), PairData("gus", t))
        EXCEPT !.status = status]

StoredRequests ==
    {NoDoc} \cup {StoredRequest(t, st) : t \in {BadId, 1, 2},
                                         st \in {"pending", "accepted", "declined"}}

InitStore ==
    /\ trips \in {<<t>> : t \in StoredTrips}
    /\ reqs \in {<<r1, r2>> : r1 \in StoredRequests,
                               r2 \in {NoDoc, StoredRequest(1, "pending")}}
    /\ now = StartNow
    /\ acc = [p \in 1..NAccept |-> AccIdle]
    /\ cpr = [p \in 1..NCreateReq |-> CprIdle]
    /\ ctr = [p \in 1..NCreateTrip |-> CtrIdle]
    /\ sweep = SweepIdle
    /\ mail = {}
    /\ raced = NoRace
    /\ ntf = NtfIdle
    /\ signup = SignupIdle(MissingConfig)

NextStore == AcceptStep(1)

SpecStore == InitStore /\ [][NextStore]_vars

(* ------------------------------------------------------------------ *)
(* createPairRequest, one call at a time, on a store of any content     *)
(* ------------------------------------------------------------------ *)
\* callers with and without an email in their token, and no caller
PairCallers == {Auth("gus", "gus", "gus"), Auth("rio", Undefined, Undefined), NoAuth}

PairLuggages ==
    {Luggage(Num(1), Num(0), Num(0), Num(0)),
     NoLuggage,
     Luggage(Num(0), Num(0 - 1), Num(0), Num(0)),
     Luggage(NaNValue, Num(0), Num(0), Num(0)),
     Luggage(Num(0), Num(0), Num(0), StringValue),
     Luggage(Num(0), Num(0), InfinityValue, Num(0)),
     Luggage(Num(0), UndefinedValue, Num(0), Num(0))}

PairContacts ==
    {<<Undefined, Undefined>>, <<"phone", Undefined>>, <<"phone", " 555 ">>,
     <<"email", Undefined>>, <<"email", " ">>, <<"fax", Undefined>>}

PairPayloads ==
    {[tripId |-> t,
      requesterName |-> Undefined,
      luggage |-> l,
      note |-> Undefined,
      requesterContactMethod |-> c[1],
      requesterContactValue |-> c[2]] :
        t \in {BadId, 1, 2}, l \in PairLuggages, c \in PairContacts}

InitStoreReq ==
    /\ trips \in {<<t>> : t \in {NoDoc} \cup
                       {StoredTrip(h, st) : h \in {"hana", "gus", Undefined},
                                            st \in {"open", "paired", Undefined}}}
    /\ reqs \in {<<r>> : r \in {NoDoc} \cup
                       {StoredRequest(1, st) : st \in {"pending", "accepted", "declined"}}}
    /\ now = StartNow
    /\ acc = [p \in 1..NAccept |-> AccIdle]
    /\ cpr = [p \in 1..NCreateReq |-> CprIdle]
    /\ ctr = [p \in 1..NCreateTrip |-> CtrIdle]
    /\ sweep = SweepIdle
    /\ mail = {}
    /\ raced = NoRace
    /\ ntf = NtfIdle
    /\ signup = SignupIdle(MissingConfig)

NextStoreReq ==
    \/ \E auth \in PairCallers, data \in PairPayloads :
          CprStart(1, auth, data, MaxReqs)
    \/ CprGetTrip(1)
    \/ CprFindExisting(1)
    \/ CprAdd(1)
    \/ CprCountPending(1)
    \/ \E hostHasEmail \in BOOLEAN : CprNotify(1, hostHasEmail)
    \/ CprReturn(1)

SpecStoreReq == InitStoreReq /\ [][NextStoreReq]_vars

\* the same, with a store and an Auth service that may reject
NextStoreReqFault ==
    \/ NextStoreReq
    \/ CprCountPendingFails(1)
    \/ CprNotifyFails(1)

SpecStoreReqFault == InitStoreReq /\ [][NextStoreReqFault]_vars

(* ------------------------------------------------------------------ *)
(* createTrip up to the cap and beyond, while time passes              *)
(* ------------------------------------------------------------------ *)
\* the ids the store assigns here reach past the cap
TripsBeyondCap == 2
\* the clock advances this far
MaxTicks == 2
\* createTrip calls at a time
NTripCalls == 2

Tick ==
    /\ Quiet
    /\ now < StartNow + MaxTicks
    /\ now' = now + 1
    /\ UNCHANGED <<trips, reqs, acc, cpr, ctr, sweep, mail, raced, ntf, signup>>

\* the store is empty, or holds a paired trip of the host
InitTrips ==
    /\ trips \in {<<>>, <<StoredTrip("hana", "paired")>>}
    /\ reqs = <<>>
    /\ now = StartNow
    /\ acc = [p \in 1..1 |-> AccIdle]
    /\ cpr = [p \in 1..1 |-> CprIdle]
    /\ ctr = [p \in 1..NTripCalls |-> CtrIdle]
    /\ sweep = SweepIdle
    /\ mail = {}
    /\ raced = NoRace
    /\ ntf = NtfIdle
    /\ signup = SignupIdle(MissingConfig)

TripEnds == {StartNow - 1, StartNow + 1}

CreateTripAnyStep(p) ==
    \/ \E auth \in {a \in Callers : a.uid \in Hosts}, end \in TripEnds :
          CtrStart(p, auth, TripData(end), ActiveTripCap + TripsBeyondCap)
    \/ CtrCount(p)
    \/ CtrAdd(p)
    \/ CtrReturn(p)

NextTrips ==
    \/ \E p \in 1..NTripCalls : CreateTripAnyStep(p)
    \/ Tick

SpecTrips == InitTrips /\ [][NextTrips]_vars

\* the same, one call after the other
NextTripsSeq ==
    \/ CreateTripAnyStep(1)
    \/ Tick

SpecTripsSeq == InitTrips /\ [][NextTripsSeq]_vars

(* ------------------------------------------------------------------ *)
(* cleanupStaleData on stores of trips of every age                    *)
(* ------------------------------------------------------------------ *)
\* departureEnd 12 hours, 1 day, 1.5 days, 2 days, 3 days and 3.5 days ago
SweepEnds ==
    {StartNow - 1, StartNow - DAY, StartNow - DAY - 1, StartNow - 2 * DAY,
     StartNow - 3 * DAY, StartNow - 3 * DAY - 1}

SweepTrips ==
    {[StoredTrip("hana", st) EXCEPT !.departureEnd = e] :
        st \in {"open", "paired"}, e \in SweepEnds}

InitSweep ==
    /\ trips \in {<<t1, t2, t3>> : t1 \in SweepTrips, t2 \in SweepTrips,
                                    t3 \in SweepTrips}
    /\ reqs \in {<<>>, <<StoredRequest(1, "pending")>>}
    /\ now = StartNow
    /\ acc = [p \in 1..1 |-> AccIdle]
    /\ cpr = [p \in 1..1 |-> CprIdle]
    /\ ctr = [p \in 1..1 |-> CtrIdle]
    /\ sweep = SweepIdle
    /\ mail \in SUBSET {StartNow - 7 * DAY - 1, StartNow - 1}
    /\ raced = NoRace
    /\ ntf = NtfIdle
    /\ signup = SignupIdle(MissingConfig)

\* the sweep on a store whose batch commits may fail
NextSweep ==
    \/ SweepStep
    \/ SweepCommitFails
    \/ SweepMailFails

SpecSweep == InitSweep /\ [][NextSweep]_vars

\* a step of a sweep that has begun: the runtime resumes the handler when
\* the promise it awaits has settled, one way or the other
SweepResumes ==
    \/ SweepQueryOpen
    \/ SweepQueryAll
    \/ SweepQueryReqs
    \/ SweepCommit
    \/ SweepCommitFails
    \/ SweepMail
    \/ SweepMailFails

SpecSweepFair == InitSweep /\ [][NextSweep]_vars /\ WF_vars(SweepResumes)

\* an open trip that ended two days ago or a paired one that ended 12 hours
\* ago, twice, and mails created just before the cutoff of the mail cleanup,
\* at the cutoff, and an hour ago
InitSweepMail ==
    /\ trips \in {<<t1, t2>> :
                    t1 \in {[StoredTrip("hana", "open")
                                EXCEPT !.departureEnd = StartNow - 2 * DAY],
                            [StoredTrip("hana", "paired")
                                EXCEPT !.departureEnd = StartNow - 1]},
                    t2 \in {[StoredTrip("gus", "open")
                                EXCEPT !.departureEnd = StartNow - 2 * DAY],
                            [StoredTrip("gus", "paired")
                                EXCEPT !.departureEnd = StartNow - 1]}}
    /\ reqs = <<>>
    /\ now = StartNow
    /\ acc = [p \in 1..1 |-> AccIdle]
    /\ cpr = [p \in 1..1 |-> CprIdle]
    /\ ctr = [p \in 1..1 |-> CtrIdle]
    /\ sweep = SweepIdle
    /\ mail \in SUBSET {StartNow - 7 * DAY - 1, StartNow - 7 * DAY, StartNow - 1}
    /\ raced = NoRace
    /\ ntf = NtfIdle
    /\ signup = SignupIdle(MissingConfig)

SpecSweepMail == InitSweepMail /\ [][NextSweep]_vars

(* ------------------------------------------------------------------ *)
(* notifyPairAcceptance on the updates of a request                    *)
(* ------------------------------------------------------------------ *)
\* the status before the update, also none
BeforeStatuses == {"pending", "accepted", "declined", Undefined}

\* the document after the update: of any status, also one the functions do
\* not write, without requester, without trip, or no data
AfterDocs ==
    {StoredRequest(1, st) : st \in {"pending", "accepted", "declined", "cancelled"}}
        \cup {[StoredRequest(1, "accepted") EXCEPT !.requesterId = Undefined],
              StoredRequest(BadId, "declined"),
              StoredRequest(2, "accepted"),
              NoDoc}

InitNotify ==
    /\ trips \in {<<NoDoc>>, <<StoredTrip("hana", "paired")>>,
                   <<StoredTrip(Undefined, "paired")>>}
    /\ reqs = <<>>
    /\ now = StartNow
    /\ acc = [p \in 1..1 |-> AccIdle]
    /\ cpr = [p \in 1..1 |-> CprIdle]
    /\ ctr = [p \in 1..1 |-> CtrIdle]
    /\ sweep = SweepIdle
    /\ mail = {}
    /\ raced = NoRace
    /\ ntf = NtfIdle
    /\ signup = SignupIdle(MissingConfig)

NextNotify ==
    \/ \E b \in BeforeStatuses, a \in AfterDocs : NtfStart(b, a)
    \/ NtfGetTrip
    \/ NtfGetTripFails
    \/ \E outcome \in LookupOutcomes : NtfGuestLookup(outcome)
    \/ \E added \in BOOLEAN : NtfGuestSend(added)
    \/ \E outcome \in LookupOutcomes : NtfHostLookup(outcome)
    \/ \E added \in BOOLEAN : NtfHostSend(added)
    \/ \E outcome \in LookupOutcomes : NtfDeclineLookup(outcome)
    \/ \E added \in BOOLEAN : NtfDeclineSend(added)
    \/ NtfReturn

SpecNotify == InitNotify /\ [][NextNotify]_vars

\* notifyPairAcceptance beside a trip, its requests and an earlier mail
InitNotifyStore ==
    /\ trips = <<StoredTrip("hana", "paired")>>
    /\ reqs \in {<<StoredRequest(1, "accepted"), r>> :
                    r \in {StoredRequest(1, "declined"),
                           StoredRequest(1, "pending")}}
    /\ now = StartNow
    /\ acc = [p \in 1..1 |-> AccIdle]
    /\ cpr = [p \in 1..1 |-> CprIdle]
    /\ ctr = [p \in 1..1 |-> CtrIdle]
    /\ sweep = SweepIdle
    /\ mail = {StartNow - 1}
    /\ raced = NoRace
    /\ ntf = NtfIdle
    /\ signup = SignupIdle(MissingConfig)

SpecNotifyStore == InitNotifyStore /\ [][NextNotify]_vars

(* ------------------------------------------------------------------ *)
(* restrictUserSignupByDomain under a configuration that changes       *)
(* ------------------------------------------------------------------ *)
\* ticks of the instance's clock
MaxSignupTicks == 3

DomainString(s) == [t |-> "string", v |-> s]

\* domains as an administrator may write them
ConfigStrings == {<<"A">>, <<" ", "b", " ">>, <<"a", "B">>}

\* the "domains" field: a list of up to two domains, no field, a string, or
\* a list with a number in it
Configs ==
    {[t |-> "array", items |-> <<>>]}
        \cup {[t |-> "array", items |-> <<DomainString(a)>>] : a \in ConfigStrings}
        \cup {[t |-> "array", items |-> <<DomainString(a), DomainString(b)>>] :
                 a \in ConfigStrings, b \in ConfigStrings}
        \cup {MissingConfig,
              [t |-> "string", items |-> <<>>],
              [t |-> "array", items |-> <<DomainString(<<"A">>),
                                          [t |-> "number", v |-> <<>>]>>]}

EmailChars == {"a", "A", "B", " "}

\* an email of an Auth user has one "@" with text on both sides
Emails ==
    {<<"u", "@", c>> : c \in EmailChars}
        \cup {<<"u", "@", c, d>> : c \in EmailChars, d \in EmailChars}

\* event.data: no user, a user without email or with an empty one, a user
\* with an email
SignupUsers ==
    {[exists |-> FALSE, email |-> None],
     [exists |-> TRUE, email |-> None],
     [exists |-> TRUE, email |-> Some(<<>>)]}
        \cup {[exists |-> TRUE, email |-> Some(e)] : e \in Emails}

\* an administrator writes config/emailDomains
ConfigWrite(config) ==
    /\ signup.pc \in {"idle", "fetch"}
    /\ config # signup.config
    /\ signup' = [signup EXCEPT !.config = config]
    /\ UNCHANGED <<trips, reqs, now, acc, cpr, ctr, sweep, mail, ntf, raced>>

\* time passes on the instance
SignupTick ==
    /\ signup.pc \in {"idle", "fetch"}
    /\ signup.clock < MaxSignupTicks
    /\ signup' = [signup EXCEPT !.clock = @ + 1]
    /\ UNCHANGED <<trips, reqs, now, acc, cpr, ctr, sweep, mail, ntf, raced>>

InitSignup ==
    /\ trips = <<>>
    /\ reqs = <<>>
    /\ now = StartNow
    /\ acc = [p \in 1..1 |-> AccIdle]
    /\ cpr = [p \in 1..1 |-> CprIdle]
    /\ ctr = [p \in 1..1 |-> CtrIdle]
    /\ sweep = SweepIdle
    /\ mail = {}
    /\ raced = NoRace
    /\ ntf = NtfIdle
    /\ \E config \in Configs : signup = SignupIdle(config)

NextSignup ==
    \/ \E user \in SignupUsers : SignupStart(user)
    \/ SignupGetAllowedDomains
    \/ SignupFetch
    \/ SignupCheck
    \/ SignupReturn
    \/ \E config \in Configs : ConfigWrite(config)
    \/ SignupTick

SpecSignup == InitSignup /\ [][NextSignup]_vars

(* ------------------------------------------------------------------ *)
(* Two invocations of restrictUserSignupByDomain sharing the cache     *)
(* ------------------------------------------------------------------ *)
\* configurations an administrator switches between
RefreshConfigs ==
    {[t |-> "array", items |-> <<DomainString(<<"A">>)>>],
     [t |-> "array", items |-> <<DomainString(<<" ", "b", " ">>)>>],
     MissingConfig}

\* users signing up while the other invocation refreshes the cache
RefreshUsers ==
    {[exists |-> TRUE, email |-> Some(<<"u", "@", "a">>)],
     [exists |-> TRUE, email |-> Some(<<"u", "@", "B">>)]}

InitRefresh ==
    /\ trips = <<>>
    /\ reqs = <<>>
    /\ now = StartNow
    /\ acc = [p \in 1..1 |-> AccIdle]
    /\ cpr = [p \in 1..1 |-> CprIdle]
    /\ ctr = [p \in 1..1 |-> CtrIdle]
    /\ sweep = SweepIdle
    /\ mail = {}
    /\ raced = NoRace
    /\ ntf = NtfIdle
    /\ \E config \in RefreshConfigs : signup = SignupIdle(config)

NextRefresh ==
    \/ \E user \in RefreshUsers : SignupStart(user)
    \/ SignupGetAllowedDomains
    \/ SignupFetch
    \/ SignupCheck
    \/ SignupReturn
    \/ PeerGetAllowedDomains
    \/ PeerRead
    \/ PeerStore
    \/ \E config \in RefreshConfigs : ConfigWrite(config)
    \/ SignupTick

SpecRefresh == InitRefresh /\ [][NextRefresh]_vars

(* ------------------------------------------------------------------ *)
(* The three callables with callers and payloads of any shape          *)
(* ------------------------------------------------------------------ *)
\* createTrip payloads: well-formed, and with each field malformed in turn
TripPayloads ==
    {TripData(StartNow + 1),
     [TripData(StartNow + 1) EXCEPT !.originOk = FALSE],
     [TripData(StartNow + 1) EXCEPT !.destinationOk = FALSE],
     [TripData(StartNow + 1) EXCEPT !.departureStart = MissingTime],
     [TripData(StartNow + 1) EXCEPT !.departureEnd = MissingTime],
     [TripData(StartNow + 1) EXCEPT !.hostContactMethod = "phone"],
     [TripData(StartNow + 1) EXCEPT !.luggageOk = FALSE]}

TripCallers == {Auth("hana", "hana", "hana"), NoAuth}

InitAnyCall ==
    /\ trips = <<StoredTrip("hana", "open")>>
    /\ reqs = <<StoredRequest(1, "pending")>>
    /\ now = StartNow
    /\ acc = [p \in 1..1 |-> AccIdle]
    /\ cpr = [p \in 1..1 |-> CprIdle]
    /\ ctr = [p \in 1..1 |-> CtrIdle]
    /\ sweep = SweepIdle
    /\ mail = {}
    /\ raced = NoRace
    /\ ntf = NtfIdle
    /\ signup = SignupIdle(MissingConfig)

NextAnyCall ==
    \/ AcceptStep(1)
    \/ NextStoreReq
    \/ \E auth \in TripCallers, data \in TripPayloads :
          CtrStart(1, auth, data, MaxTrips)
    \/ CtrCount(1)
    \/ CtrAdd(1)
    \/ CtrReturn(1)

SpecAnyCall == InitAnyCall /\ [][NextAnyCall]_vars

(* ------------------------------------------------------------------ *)
(* Requests and accepts on the trips of two hosts                      *)
(* ------------------------------------------------------------------ *)
InitHosts ==
    /\ trips = <<StoredTrip("hana", "open"), StoredTrip("gus", "open")>>
    /\ reqs = <<>>
    /\ now = StartNow
    /\ acc = [p \in 1..1 |-> AccIdle]
    /\ cpr = [p \in 1..1 |-> CprIdle]
    /\ ctr = [p \in 1..1 |-> CtrIdle]
    /\ sweep = SweepIdle
    /\ mail = {}
    /\ raced = NoRace
    /\ ntf = NtfIdle
    /\ signup = SignupIdle(MissingConfig)

NextHosts ==
    \/ CreatePairRequestStep(1)
    \/ AcceptStep(1)

SpecHosts == InitHosts /\ [][NextHosts]_vars

(* ------------------------------------------------------------------ *)
(* createTrip and createPairRequest with contact details of any shape  *)
(* ------------------------------------------------------------------ *)
ContactCallers ==
    {Auth("gus", "gus", "gus"), Auth("rio", Undefined, Undefined),
     Auth("hana", "hana", "hana"), Auth("hana", Undefined, Undefined)}

\* createTrip payloads that are well-formed but for the contact details
ContactTripPayloads ==
    {[TripData(StartNow + 1) EXCEPT !.hostContactMethod = c[1],
                                    !.hostContactValue = c[2]] : c \in PairContacts}

\* createPairRequest payloads that are well-formed but for the contact details
ContactPairPayloads ==
    {[PairData("rio", 1) EXCEPT !.requesterContactMethod = c[1],
                                !.requesterContactValue = c[2]] : c \in PairContacts}

InitContacts ==
    /\ trips = <<StoredTrip("hana", "open")>>
    /\ reqs = <<>>
    /\ now = StartNow
    /\ acc = [p \in 1..1 |-> AccIdle]
    /\ cpr = [p \in 1..1 |-> CprIdle]
    /\ ctr = [p \in 1..1 |-> CtrIdle]
    /\ sweep = SweepIdle
    /\ mail = {}
    /\ raced = NoRace
    /\ ntf = NtfIdle
    /\ signup = SignupIdle(MissingConfig)

NextContacts ==
    \/ \E auth \in ContactCallers, data \in ContactPairPayloads :
          CprStart(1, auth, data, MaxReqs)
    \/ CprGetTrip(1)
    \/ CprFindExisting(1)
    \/ CprAdd(1)
    \/ CprCountPending(1)
    \/ CprNotify(1, TRUE)
    \/ CprReturn(1)
    \/ \E auth \in ContactCallers, data \in ContactTripPayloads :
          CtrStart(1, auth, data, MaxTrips + 1)
    \/ CtrCount(1)
    \/ CtrAdd(1)
    \/ CtrReturn(1)

SpecContacts == InitContacts /\ [][NextContacts]_vars

(* ------------------------------------------------------------------ *)
(* Properties                                                          *)
(* ------------------------------------------------------------------ *)
AccProcs == DOMAIN acc

\* the accepted requests that name trip t
AcceptedOfTrip(t) == {r \in ReqsOfTrip(t) : reqs[r].status = "accepted"}

\* the documents of the call of p are still in the store
CallDocsExist(p) ==
    /\ ReqDoc(acc[p].requestId).exists
    /\ TripDoc(acc[p].startTrip).exists

\* C1: two concurrent accepts of the host on two pending requests of one open
\* trip. A call that started on a pending request of the caller's open trip
\* and did not commit lost to another call: it ends failed-precondition, and
\* the trip is paired with the requester of its one accepted request. The
\* call that committed ends ok and its requester is still the trip's guest.
\* Of two such calls on distinct requests of one trip at most one commits and
\* at most one request is accepted. (While the documents are in the store.)
C1_ExactlyOneAcceptWins ==
    /\ \A p \in AccProcs :
          (acc[p].pc = "done" /\ acc[p].startReady /\ CallDocsExist(p)) =>
             IF acc[p].committed
             THEN /\ acc[p].result = "ok"
                  /\ reqs[acc[p].requestId].status = "accepted"
                  /\ trips[acc[p].startTrip].guest.id =
                        reqs[acc[p].requestId].requesterId
             ELSE /\ acc[p].result = "failed-precondition"
                  /\ trips[acc[p].startTrip].status = "paired"
                  /\ \E r \in ReqIds :
                        /\ AcceptedOfTrip(acc[p].startTrip) = {r}
                        /\ trips[acc[p].startTrip].guest.id = reqs[r].requesterId
    /\ \A p, q \in AccProcs :
          (/\ p # q
           /\ acc[p].startReady /\ acc[q].startReady
           /\ acc[p].startTrip = acc[q].startTrip
           /\ acc[p].requestId # acc[q].requestId
           /\ CallDocsExist(p) /\ CallDocsExist(q)) =>
              /\ ~(acc[p].committed /\ acc[q].committed)
              /\ ~(/\ reqs[acc[p].requestId].status = "accepted"
                   /\ reqs[acc[q].requestId].status = "accepted")

\* the loser of a race ends while the winner is still declining the others
C1_Witness ==
    \E p, q \in AccProcs :
        /\ p # q
        /\ acc[p].pc = "done" /\ acc[p].startReady /\ ~acc[p].committed
        /\ acc[p].result = "failed-precondition"
        /\ CallDocsExist(p)
        /\ acc[q].startReady /\ acc[q].committed
        /\ acc[q].startTrip = acc[p].startTrip
        /\ acc[q].requestId # acc[p].requestId

\* C2: no trip id is named by two accepted pairing requests.
C2_AtMostOneAccepted ==
    \A t \in TripIds : Cardinality(AcceptedOfTrip(t)) <= 1

\* a trip with an accepted request and another request
C2_Witness ==
    \E t \in TripIds :
        /\ Cardinality(AcceptedOfTrip(t)) = 1
        /\ Cardinality(ReqsOfTrip(t)) = 2

\* C3: a trip in the store is paired exactly when its guest is not null.
C3_PairedIffGuest ==
    \A t \in TripIds :
        trips[t].exists => (trips[t].status = "paired" <=> trips[t].guest # NullGuest)

C3_Witness ==
    \E t \in TripIds :
        trips[t].exists /\ trips[t].status = "paired" /\ trips[t].guest.id \in Users

\* C4: an accepted request whose trip is in the store names a paired trip
\* whose guest is the request's requester.
C4_AcceptedImpliesPaired ==
    \A r \in ReqIds :
        (reqs[r].exists /\ reqs[r].status = "accepted" /\ TripDoc(reqs[r].tripId).exists)
            => /\ trips[reqs[r].tripId].status = "paired"
               /\ trips[reqs[r].tripId].guest.id = reqs[r].requesterId

\* an accepted request of a paired trip while another accept is in its
\* transaction on the same trip
C4_Witness ==
    \E r \in ReqIds, p \in AccProcs :
        /\ reqs[r].exists /\ reqs[r].status = "accepted"
        /\ TripDoc(reqs[r].tripId).exists
        /\ acc[p].pc = "txnCommit"
        /\ acc[p].reqSnap.tripId = reqs[r].tripId

\* C6: the step that commits the accept of request r on trip t finds r
\* pending and t open, sets r.status to accepted and nothing else of r, sets
\* t.status to paired and t.guest to the snapshot of r (id, nickname, luggage,
\* note) and nothing else of t, and changes no other document.
C6_AcceptEffect ==
    [][\A p \in AccProcs :
        (acc[p].pc = "txnCommit" /\ acc'[p].pc = "reread") =>
            LET r == acc[p].requestId
                t == reqs[r].tripId
            IN  /\ reqs[r].status = "pending"
                /\ trips[t].status = "open"
                /\ reqs'[r] = [reqs[r] EXCEPT !.status = "accepted"]
                /\ trips'[t].status = "paired"
                /\ trips'[t].guest.id = reqs[r].requesterId
                /\ trips'[t].guest.nickname = reqs[r].requesterName
                /\ trips'[t].guest.luggage = reqs[r].luggage
                /\ trips'[t].guest.note = reqs[r].note
                /\ DOMAIN trips'[t] = DOMAIN trips[t]
                /\ \A f \in DOMAIN trips[t] \ {"status", "guest"} :
                      trips'[t][f] = trips[t][f]
                /\ \A r2 \in ReqIds \ {r} : reqs'[r2] = reqs[r2]
                /\ \A t2 \in TripIds \ {t} : trips'[t2] = trips[t2]
                /\ DOMAIN reqs' = DOMAIN reqs /\ DOMAIN trips' = DOMAIN trips
      ]_vars

\* an accept has just committed on a request that carries a note
C6_Witness ==
    \E p \in AccProcs :
        /\ acc[p].pc = "reread"
        /\ ReqDoc(acc[p].requestId).exists
        /\ reqs[acc[p].requestId].note = "hi"
        /\ TripDoc(reqs[acc[p].requestId].tripId).exists
        /\ trips[reqs[acc[p].requestId].tripId].guest.id = "gus"

TaggedFailures ==
    {"unauthenticated", "invalid-argument", "not-found", "failed-precondition",
     "permission-denied"}

\* C8: the step in which an accept call ends in a tagged failure leaves both
\* collections as they are, and so does every earlier step of that call: the
\* call has not committed and has not reached the decline of the siblings.
C8_FailureLeavesStore ==
    [][\A p \in AccProcs :
        /\ (acc'[p] # acc[p] /\ ~acc'[p].committed) =>
               (reqs' = reqs /\ trips' = trips)
        /\ (acc[p].pc # "done" /\ acc'[p].pc = "done"
                /\ acc'[p].result \in TaggedFailures) =>
               /\ ~acc'[p].committed
               /\ acc[p].pc \notin {"reread", "query", "batch"}
      ]_vars

\* a call by someone who is not the host ends permission-denied
C8_Witness ==
    \E p \in AccProcs :
        /\ acc[p].pc = "done"
        /\ acc[p].result = "permission-denied"
        /\ ReqDoc(acc[p].requestId).exists
        /\ reqs[acc[p].requestId].status = "pending"

\* C9: an accept call of the host that starts on a request of a trip that is
\* already paired ends failed-precondition (while the request and the trip
\* are in the store), and no step replaces the guest of a paired trip or
\* makes it anything but paired.
C9_PairedStaysPaired ==
    /\ [](\A p \in AccProcs :
            (acc[p].pc = "done" /\ acc[p].startPaired /\ CallDocsExist(p))
                => acc[p].result = "failed-precondition")
    /\ [][\A t \in TripIds :
            (trips[t].exists /\ trips[t].status = "paired" /\ trips'[t].exists)
                => (trips'[t].guest = trips[t].guest /\ trips'[t].status = "paired")
         ]_vars

\* the host tries to accept a sibling that is still pending on a paired trip
C9_Witness ==
    \E p \in AccProcs :
        /\ acc[p].pc = "done" /\ acc[p].startPaired
        /\ acc[p].result = "failed-precondition"
        /\ CallDocsExist(p)
        /\ reqs[acc[p].requestId].status = "pending"

\* the failures of the claim's list, in its order, read off the store;
\* statusless says what a trip without a status counts as
FirstFailure(uid, requestId, statusless) ==
    LET r == ReqDoc(requestId)
        t == TripDoc(r.tripId)
    IN  IF ~r.exists THEN "not-found"
        ELSE IF r.status # "pending" THEN "failed-precondition"
        ELSE IF r.tripId = BadId THEN "failed-precondition"
        ELSE IF ~t.exists THEN "not-found"
        ELSE IF t.hostId # uid THEN "permission-denied"
        ELSE IF (IF t.status = Undefined THEN statusless ELSE t.status) # "open"
             THEN "failed-precondition"
        ELSE "ok"

FirstFailureHolds(statusless) ==
    \A p \in AccProcs :
        /\ (acc[p].pc = "done" /\ ~acc[p].committed
               /\ acc[p].result \notin {"unauthenticated", "invalid-argument"})
              => /\ acc[p].result # "ok"
                 /\ acc[p].result = FirstFailure(acc[p].uid, acc[p].requestId, statusless)
        /\ acc[p].pc = "txnCommit"
              => FirstFailure(acc[p].uid, acc[p].requestId, statusless) = "ok"
        /\ (acc[p].pc = "done" /\ acc[p].committed) => acc[p].result = "ok"

C10_FanOutFailureHidden ==
    \A p \in AccProcs :
        (acc[p].pc = "done" /\ acc[p].committed) =>
            /\ acc[p].result = "ok"
            /\ ReqDoc(acc[p].requestId).exists
                  => reqs[acc[p].requestId].status = "accepted"
            /\ TripDoc(acc[p].startTrip).exists
                  => trips[acc[p].startTrip].status = "paired"

\* C5: when an accept call that committed has ended, and its batch was not
\* failed by the store, every other request of the trip that was pending at
\* the commit and is still in the store is declined (no later step of any
\* other invocation declines a request of that trip).
C5_SiblingsDeclined ==
    \A p \in AccProcs :
        (acc[p].pc = "done" /\ acc[p].committed /\ ~acc[p].batchFailed) =>
            \A r \in acc[p].owed :
                ReqDoc(r).exists => reqs[r].status = "declined"

\* the requests of requester uid on trip t that are pending or accepted
LiveRequests(t, uid) ==
    {r \in ReqIds : /\ reqs[r].exists
                    /\ reqs[r].tripId = t /\ reqs[r].requesterId = uid
                    /\ reqs[r].status \in {"pending", "accepted"}}

\* C11 as stated: no requester ever has two pending or accepted requests on
\* one trip, whatever createPairRequest calls run at the same time.
C11_AsStated ==
    \A r1, r2 \in ReqIds :
        (/\ reqs[r1].exists /\ reqs[r2].exists
         /\ reqs[r1].status \in {"pending", "accepted"}
         /\ reqs[r2].status \in {"pending", "accepted"}
         /\ reqs[r1].tripId = reqs[r2].tripId
         /\ reqs[r1].requesterId = reqs[r2].requesterId) => r1 = r2

\* C11, amended: no requester has two pending or accepted requests on one
\* trip, unless two createPairRequest calls of that requester for that trip
\* have both passed the duplicate lookup before either inserted.
C11_OneLiveRequest ==
    \A t \in 1..MaxTrips, u \in Users :
        <<t, u>> \notin raced.pairs => Cardinality(LiveRequests(t, u)) <= 1

\* a second call of a requester on the same trip is refused
C11_Witness ==
    \E p \in DOMAIN cpr :
        /\ cpr[p].pc = "done" /\ cpr[p].result = "already-exists"
        /\ Cardinality(LiveRequests(cpr[p].doc.tripId, cpr[p].auth.uid)) = 1

\* the payload failures of the claim: no tripId, no contact value for a
\* method that needs one (the token's email stands in for an email value),
\* or a luggage count that is not a finite number >= 0
PayloadFailure(auth, data) ==
    \/ data.tripId = BadId
    \/ /\ data.requesterContactMethod \in {"email", "phone"}
       /\ data.requesterContactValue \in {Undefined, " "}
       /\ ~(data.requesterContactMethod = "email" /\ auth.email # Undefined)
    \/ data.luggage.t # "object"
    \/ \E k \in {"carryOnSmall", "carryOnLarge", "checkedSmall", "checkedLarge"} :
          data.luggage[k].t # "number" \/ data.luggage[k].v < 0

\* the failures of the claim's list, in its order, read off the store;
\* statusless says what a trip without a status counts as
FirstPairFailure(auth, data, statusless) ==
    LET t == TripDoc(data.tripId)
    IN  IF PayloadFailure(auth, data) THEN "invalid-argument"
        ELSE IF ~t.exists THEN "not-found"
        ELSE IF t.hostId = Undefined THEN "failed-precondition"
        ELSE IF (IF t.status = Undefined THEN statusless ELSE t.status) # "open"
             THEN "failed-precondition"
        ELSE IF t.hostId = auth.uid THEN "failed-precondition"
        ELSE IF LiveRequests(data.tripId, auth.uid) # {} THEN "already-exists"
        ELSE "ok"

FirstPairFailureHolds(statusless) ==
    \A p \in DOMAIN cpr :
        /\ (cpr[p].pc = "done" /\ cpr[p].result \notin {"ok", "unauthenticated"})
              => cpr[p].result = FirstPairFailure(cpr[p].auth, cpr[p].data, statusless)
        /\ cpr[p].pc = "add"
              => FirstPairFailure(cpr[p].auth, cpr[p].data, statusless) = "ok"
        /\ (cpr[p].pc = "done" /\ cpr[p].result = "ok")
              => /\ cpr[p].id = Len(reqs)
                 /\ reqs[cpr[p].id].status = "pending"
                 /\ reqs[cpr[p].id].requesterId = cpr[p].auth.uid
                 /\ reqs[cpr[p].id].tripId = cpr[p].data.tripId
                 /\ reqs[cpr[p].id].hostId = TripDoc(cpr[p].data.tripId).hostId

HostedFrom(uid, from) ==
    {t \in TripIds : /\ trips[t].exists /\ trips[t].hostId = uid
                     /\ trips[t].status \in {"open", "paired"}
                     /\ trips[t].departureEnd >= from}

\* C13: with one call at a time, createTrip is refused resource-exhausted
\* exactly when the caller hosts K or more open or paired trips that end now
\* or later; otherwise it adds one trip, the caller's, open and without guest,
\* and no other step of the call changes the collection.
C13_CapSequential ==
    /\ [](\A p \in DOMAIN ctr :
            /\ (ctr[p].pc = "done" /\ ctr[p].result = "resource-exhausted")
                  => Cardinality(HostedFrom(ctr[p].auth.uid, now)) >= ActiveTripCap
            /\ ctr[p].pc = "add"
                  => Cardinality(HostedFrom(ctr[p].auth.uid, now)) < ActiveTripCap
            /\ (ctr[p].pc = "done" /\ ctr[p].result = "ok")
                  => /\ ctr[p].id = Len(trips)
                     /\ trips[ctr[p].id].hostId = ctr[p].auth.uid
                     /\ trips[ctr[p].id].status = "open"
                     /\ trips[ctr[p].id].guest = NullGuest
            /\ ctr[p].pc = "done"
                  => ctr[p].result \in {"ok", "resource-exhausted"})
    /\ [][\A p \in DOMAIN ctr :
            IF ctr[p].pc = "add" /\ ctr'[p].pc = "done"
            THEN /\ Len(trips') = Len(trips) + 1
                 /\ SubSeq(trips', 1, Len(trips)) = trips
            ELSE ctr'[p] # ctr[p] => trips' = trips
         ]_vars

\* the host has K trips that count, one of them paired, and trips that are
\* over besides: the next call is refused
C13_Witness ==
    \E p \in DOMAIN ctr :
        /\ ctr[p].pc = "done" /\ ctr[p].result = "resource-exhausted"
        /\ Cardinality(HostedFrom(ctr[p].auth.uid, now)) = ActiveTripCap
        /\ Len(trips) > ActiveTripCap
        /\ \E t \in HostedFrom(ctr[p].auth.uid, now) : trips[t].status = "paired"

\* C14 as stated: no host ever has more than K open or paired trips that
\* end in the future, whatever createTrip calls run at the same time.
C14_AsStated ==
    \A u \in Users : Cardinality(HostedFrom(u, now + 1)) <= ActiveTripCap

\* C14, amended: no host has more than K open or paired trips that end in
\* the future, unless two createTrip calls of that host have both passed the
\* count before either added its trip.
C14_CapHolds ==
    \A u \in Users :
        u \notin raced.hosts => Cardinality(HostedFrom(u, now + 1)) <= ActiveTripCap

\* the host is at the cap and a further call, running together with
\* another one, has been refused
C14_Witness ==
    \E p, q \in DOMAIN ctr :
        /\ p # q
        /\ ctr[p].pc = "done" /\ ctr[p].result = "resource-exhausted"
        /\ ctr[q].pc \notin {"idle", "done"}
        /\ ctr[p].auth.uid \notin raced.hosts
        /\ Cardinality(HostedFrom(ctr[p].auth.uid, now + 1)) = ActiveTripCap

\* the elements of a sequence
Range(seq) == {seq[i] : i \in DOMAIN seq}

\* the trips the claim has a sweep at time at select
SelectedAt(at) ==
    {t \in TripIds :
        /\ trips[t].exists
        /\ \/ trips[t].status = "open" /\ trips[t].departureEnd < at - DAY
           \/ trips[t].departureEnd < at - 3 * DAY}

C16_NoOrphanRequest ==
    \A r \in ReqIds : reqs[r].exists => TripDoc(reqs[r].tripId).exists

\* C17: when a sweep has ended, every trip it selected, apart from one whose
\* batch commit failed, is deleted, and the mail cleanup has run: the expired
\* mail is gone or its batch was put together.
C17_SweepContinues ==
    sweep.pc = "done" =>
        /\ \A i \in 2..Len(sweep.tripsToDelete) :
              ~TripDoc(sweep.tripsToDelete[i]).exists
        /\ ExpiredMail(sweep.cutoffMail) # {} => sweep.mailDeletes > 0

\* C18: an invocation of notifyPairAcceptance has enqueued no mail when the
\* status did not change or the new status is neither accepted nor declined,
\* at most one to the requester and at most one to the host when it changed
\* to accepted, at most one to the requester and none to the host when it
\* changed to declined; and no step of it enqueues more than one mail.
C18_MailsPerUpdate ==
    /\ [](LET after == IF ntf.afterData.exists THEN ntf.afterData.status
                       ELSE Undefined
              changed == ntf.afterData.exists /\ ntf.beforeStatus # after
          IN  /\ ntf.toRequester <= 1 /\ ntf.toHost <= 1
              /\ ~changed => ntf.toRequester + ntf.toHost = 0
              /\ after \notin {"accepted", "declined"}
                    => ntf.toRequester + ntf.toHost = 0
              /\ after = "declined" => ntf.toHost = 0)
    /\ [][ntf'.pc # "idle" =>
             Cardinality(mail' \ mail)
               <= (ntf'.toRequester + ntf'.toHost) - (ntf.toRequester + ntf.toHost)
         ]_vars

\* the status of a request has changed to accepted and both mails are out
C18_Witness ==
    /\ ntf.pc = "done"
    /\ ntf.beforeStatus = "pending"
    /\ ntf.afterData.exists /\ ntf.afterData.status = "accepted"
    /\ ntf.toRequester = 1 /\ ntf.toHost = 1

\* C19: notifyPairAcceptance always completes normally, whatever lookup or
\* enqueue fails.
C19_NotifyNeverThrows ==
    ntf.pc = "done" => ntf.result = "ok"

\* the domain of an email: the text after its "@", in lower case
DomainOfEmail(email) ==
    LET at == CHOOSE i \in DOMAIN email : email[i] = "@"
    IN  toLowerCase(SubSeq(email, at + 1, Len(email)))

\* the domains a configuration names, each in lower case and trimmed
ConfiguredDomains(config) ==
    IF IsDomainList(config)
    THEN {trim(toLowerCase(config.items[i].v)) : i \in DOMAIN config.items}
    ELSE {}

HasEmail(user) == user.exists /\ user.email # None /\ user.email # Some(<<>>)

\* C20 as stated: a signup is admitted exactly when the domain of the email
\* is one of the configured domains; any other is refused with
\* permission-denied, a missing email with invalid-argument.
C20_AsStated ==
    signup.pc = "done" =>
        IF ~HasEmail(signup.user)
        THEN signup.result = "invalid-argument"
        ELSE /\ signup.result = "ok"
                  <=> DomainOfEmail(signup.user.email[1])
                          \in ConfiguredDomains(signup.config)
             /\ signup.result # "ok" => signup.result = "permission-denied"

\* C20 (amended): the domains are those of the configuration as the instance
\* last read it, and it answers from that reading only while the reading
\* began less than 60 seconds ago; a reading that finds no list of strings
\* ends the signup with failed-precondition; otherwise the signup is admitted
\* exactly when the domain of the email is one of these domains, any other is
\* refused with permission-denied, a missing email with invalid-argument.
C20_DomainCheck ==
    /\ [](signup.pc = "done" =>
            IF ~HasEmail(signup.user)
            THEN signup.result = "invalid-argument"
            ELSE IF ~IsDomainList(signup.read)
            THEN signup.result = "failed-precondition"
            ELSE /\ signup.result = "ok"
                      <=> DomainOfEmail(signup.user.email[1])
                              \in ConfiguredDomains(signup.read)
                 /\ signup.result # "ok" => signup.result = "permission-denied")
    /\ [][signup.pc = "domains" /\ signup'.pc = "check"
             => signup.clock - signup.lastFetchMs < CACHE_TTL_MS]_vars

\* an email in upper case is admitted by a configured domain written with
\* blanks around it
C20_Witness ==
    /\ signup.pc = "done"
    /\ signup.result = "ok"
    /\ signup.user.email = Some(<<"u", "@", "B">>)
    /\ \A i \in DOMAIN signup.read.items :
           signup.read.items[i].v = <<" ", "b", " ">>

\* the configuration document is missing, has no domains array, or has an
\* entry that is no string
MalformedConfig(config) ==
    \/ config.t # "array"
    \/ \E i \in DOMAIN config.items : config.items[i].t # "string"

\* C21 as stated: a signup check of a user with an email made while the
\* configuration is malformed fails with failed-precondition, whatever the
\* process holds from earlier checks.
C21_AsStated ==
    signup.pc = "done" /\ HasEmail(signup.user) /\ MalformedConfig(signup.config)
        => signup.result = "failed-precondition"

\* C21 (amended): a signup check of a user with an email that reads the
\* configuration (the process holds no list read less than 60 seconds ago)
\* and finds it malformed fails with failed-precondition, also after earlier
\* successful checks; and the failed read leaves the cached list and its
\* time as they were.
C21_MalformedConfig ==
    /\ [](signup.pc = "done" /\ HasEmail(signup.user) /\ signup.fetched
              /\ MalformedConfig(signup.config)
            => signup.result = "failed-precondition")
    /\ [][signup'.pc = "done" /\ signup'.result = "failed-precondition"
             => /\ signup'.cachedDomains = signup.cachedDomains
                /\ signup'.lastFetchMs = signup.lastFetchMs]_vars

\* a check fails on a malformed configuration in a process that holds the
\* list of an earlier successful check
C21_Witness ==
    /\ signup.pc = "done"
    /\ signup.result = "failed-precondition"
    /\ signup.cachedDomains # None
    /\ signup.config.t = "array"

\* the failures of the checks made before the first store access
EarlyRejections == {"unauthenticated", "invalid-argument"}

\* call q of the calls cs ends in this step with one of these failures
RejectedNow(cs, csNext, q) ==
    /\ cs[q].pc # "done"
    /\ csNext[q].pc = "done"
    /\ csNext[q].result \in EarlyRejections

\* C22: a call of createTrip, createPairRequest or acceptPairRequest that is
\* rejected with unauthenticated or invalid-argument is rejected in its first
\* step, before any of its steps that read or write the store, and leaves
\* the store as it is; a call without caller uid is rejected with
\* unauthenticated whatever its payload.
C22_RejectedBeforeStore ==
    /\ [][/\ (\A q \in DOMAIN acc : RejectedNow(acc, acc', q)
                 => (acc[q].pc = "idle" /\ trips' = trips /\ reqs' = reqs /\ mail' = mail))
           /\ (\A q \in DOMAIN cpr : RejectedNow(cpr, cpr', q)
                 => (cpr[q].pc = "idle" /\ trips' = trips /\ reqs' = reqs /\ mail' = mail))
           /\ (\A q \in DOMAIN ctr : RejectedNow(ctr, ctr', q)
                 => (ctr[q].pc = "idle" /\ trips' = trips /\ reqs' = reqs /\ mail' = mail))
         ]_vars
    /\ [](/\ (\A q \in DOMAIN acc : acc[q].pc = "done" /\ acc[q].uid = NoUid
                 => acc[q].result = "unauthenticated")
           /\ (\A q \in DOMAIN cpr : cpr[q].pc = "done" /\ cpr[q].auth.uid = NoUid
                 => cpr[q].result = "unauthenticated")
           /\ (\A q \in DOMAIN ctr : ctr[q].pc = "done" /\ ctr[q].auth.uid = NoUid
                 => ctr[q].result = "unauthenticated"))

\* a createPairRequest call without caller and without tripId has ended with
\* unauthenticated while an acceptPairRequest call is in the middle of its
\* transaction
C22_Witness ==
    /\ cpr[1].pc = "done"
    /\ cpr[1].auth = NoAuth
    /\ cpr[1].data.tripId = BadId
    /\ cpr[1].result = "unauthenticated"
    /\ acc[1].pc = "txnGetTrip"

\* C23: no step changes the status of a pairing request except from pending
\* to accepted or from pending to declined.
C23_RequestTransitions ==
    [][\A r \in ReqIds :
          (reqs[r].exists /\ reqs'[r].exists /\ reqs'[r].status # reqs[r].status)
             => /\ reqs[r].status = "pending"
                /\ reqs'[r].status \in {"accepted", "declined"}
      ]_vars

\* one request of a trip was accepted, another declined, and a further
\* accept call is under way
C23_Witness ==
    /\ \E r1, r2 \in ReqIds :
          /\ reqs[r1].exists /\ reqs[r1].status = "accepted"
          /\ reqs[r2].exists /\ reqs[r2].status = "declined"
          /\ reqs[r1].tripId = reqs[r2].tripId
    /\ \E p \in AccProcs : acc[p].pc = "txnGetTrip"

\* C24: no step changes the status of a trip except from open to paired, and
\* no step changes the guest of a trip that has one, while the trip is in the
\* store.
C24_TripTransitions ==
    [][\A t \in TripIds :
          (trips[t].exists /\ trips'[t].exists)
             => /\ trips'[t].status # trips[t].status
                      => (trips[t].status = "open" /\ trips'[t].status = "paired")
                /\ trips[t].guest # NullGuest => trips'[t].guest = trips[t].guest
      ]_vars

\* a trip was paired by a call that has ended ok, and a request of another
\* requester is still on the trip
C24_Witness ==
    \E p \in AccProcs, r \in ReqIds :
        /\ acc[p].pc = "done" /\ acc[p].committed /\ acc[p].result = "ok"
        /\ TripDoc(acc[p].startTrip).exists
        /\ trips[acc[p].startTrip].status = "paired"
        /\ trips[acc[p].startTrip].guest # NullGuest
        /\ reqs[r].exists /\ reqs[r].tripId = acc[p].startTrip
        /\ reqs[r].requesterId # trips[acc[p].startTrip].guest.id

\* the call of p is under way, its request and the request's trip are in the
\* store, and its caller is not the host of that trip
NotHostCall(p) ==
    /\ acc[p].pc # "idle"
    /\ ReqDoc(acc[p].requestId).exists
    /\ TripDoc(reqs[acc[p].requestId].tripId).exists
    /\ trips[reqs[acc[p].requestId].tripId].hostId # acc[p].uid

\* C25: an acceptPairRequest call whose caller is not the host of the trip of
\* its request ends in a failure without having committed, and no step of it
\* changes any trip or any pairing request.
C25_NonHostChangesNothing ==
    /\ [](\A p \in AccProcs :
            (NotHostCall(p) /\ acc[p].pc = "done")
                => (acc[p].result # "ok" /\ ~acc[p].committed))
    /\ [][\A p \in AccProcs :
            (NotHostCall(p) /\ acc'[p] # acc[p])
                => (trips' = trips /\ reqs' = reqs)
         ]_vars

\* a user who is not the host has tried to accept a pending request of an
\* open trip and was refused
C25_Witness ==
    \E p \in AccProcs :
        /\ NotHostCall(p)
        /\ acc[p].pc = "done"
        /\ acc[p].result = "permission-denied"
        /\ reqs[acc[p].requestId].status = "pending"
        /\ trips[reqs[acc[p].requestId].tripId].status = "open"

\* C26: a createPairRequest call that has inserted its request returns the
\* id of that request, whichever step of the notification fails, and the
\* request is pending.
C26_NotifyFailureHidden ==
    \A p \in DOMAIN cpr :
        (cpr[p].pc = "done" /\ cpr[p].id # BadId)
            => /\ cpr[p].result = "ok"
               /\ reqs[cpr[p].id].exists
               /\ reqs[cpr[p].id].status = "pending"

\* an accept call that committed on trip t has its fan-out still before it
Declining(t) ==
    \E q \in AccProcs :
        /\ acc[q].committed
        /\ acc[q].pc \in {"reread", "query", "batch"}
        /\ \/ acc[q].tripId = t
           \/ ReqDoc(acc[q].requestId).exists /\ reqs[acc[q].requestId].tripId = t

\* C27: once the accept call that paired a trip has stopped, whether or not
\* its batch was committed, a request that is pending on the paired trip is
\* changed by no step, and removed by no step but one of cleanupStaleData.
C27_NoRecovery ==
    [][\A r \in ReqIds :
          (/\ reqs[r].exists /\ reqs[r].status = "pending"
           /\ TripDoc(reqs[r].tripId).exists
           /\ trips[reqs[r].tripId].status = "paired"
           /\ ~Declining(reqs[r].tripId))
             => IF reqs'[r].exists THEN reqs'[r] = reqs[r] ELSE sweep' # sweep
      ]_vars

\* an accept call has stopped between its transaction and its batch and a
\* sibling of the accepted request is pending on the paired trip
C27_Witness ==
    \E p \in AccProcs, r \in ReqIds :
        /\ acc[p].pc = "done" /\ acc[p].committed /\ acc[p].result = "internal"
        /\ r \in acc[p].owed
        /\ reqs[r].exists /\ reqs[r].status = "pending"
        /\ TripDoc(reqs[r].tripId).exists
        /\ trips[reqs[r].tripId].status = "paired"

\* C28: no step inserts a pairing request for a trip that is paired, and when
\* an accept call that committed returns ok its trip has no pending request.
C28_NoInsertOnPairedTrip ==
    /\ [][\A r \in (DOMAIN reqs') \ (DOMAIN reqs) :
            TripDoc(reqs'[r].tripId).exists
                => trips[reqs'[r].tripId].status # "paired"
         ]_vars
    /\ [](\A p \in AccProcs :
            (/\ acc[p].pc = "done" /\ acc[p].committed /\ acc[p].result = "ok"
             /\ TripDoc(acc[p].startTrip).exists)
                => PendingOfTrip(acc[p].startTrip) = {})

\* C29: no step removes a trip that is paired and whose departureEnd is less
\* than three days in the past.
C29_SweepSparesPaired ==
    [][\A t \in TripIds :
          (trips[t].exists /\ ~trips'[t].exists)
             => ~(/\ trips[t].status = "paired"
                  /\ trips[t].departureEnd >= now - 3 * DAY)
      ]_vars

\* C30: every declined pairing request has a sibling: another request of the
\* same trip that is accepted.
C30_DeclinedHasAcceptedSibling ==
    \A r \in ReqIds :
        (reqs[r].exists /\ reqs[r].status = "declined")
            => \E r2 \in ReqIds \ {r} :
                  /\ reqs[r2].exists
                  /\ reqs[r2].tripId = reqs[r].tripId
                  /\ reqs[r2].status = "accepted"

\* C31: every pairing request whose trip is in the store has a requester
\* other than the trip's host and carries the trip's hostId.
C31_RequestMatchesTrip ==
    \A r \in ReqIds :
        (reqs[r].exists /\ TripDoc(reqs[r].tripId).exists)
            => /\ reqs[r].requesterId # trips[reqs[r].tripId].hostId
               /\ reqs[r].hostId = trips[reqs[r].tripId].hostId

\* a host who has a request on the other host's trip has been refused a
\* request on the own trip
C31_Witness ==
    /\ \E r \in ReqIds :
          /\ reqs[r].exists
          /\ reqs[r].requesterId = "hana" /\ reqs[r].hostId = "gus"
    /\ cpr[1].pc = "done"
    /\ cpr[1].result = "failed-precondition"
    /\ TripDoc(cpr[1].data.tripId).exists
    /\ trips[cpr[1].data.tripId].hostId = cpr[1].auth.uid

\* the contact details the claim asks for: the method as sent when it is one
\* of the three, else chat; no value for chat; for email and phone the value
\* sent when there is one, else for email the caller's authenticated email;
\* "reject" when there is neither
ClaimedContact(m, v, email) ==
    LET method == IF m \in {"chat", "email", "phone"} THEN m ELSE "chat"
        sent == v # Undefined /\ v # " "
    IN  IF method = "chat" THEN [value |-> Null,
                                 method |-> "chat",
                                 hasValue |-> FALSE]
        ELSE IF sent THEN [value |-> "sent",
                           method |-> method,
                           hasValue |-> TRUE]
        ELSE IF method = "email" /\ email # Undefined
             THEN [value |-> email,
                   method |-> "email",
                   hasValue |-> TRUE]
        ELSE [value |-> Null,
              method |-> "reject",
              hasValue |-> FALSE]

\* a call with these contact details ended as the claim asks and, when it
\* wrote a document, the document has these contact details
ContactAsClaimed(m, v, email, result, written, method, value) ==
    LET c == ClaimedContact(m, v, email)
    IN  IF c.method = "reject"
        THEN result = "invalid-argument" /\ ~written
        ELSE /\ result # "invalid-argument"
             /\ written =>
                   /\ method = c.method
                   /\ (value # Null) <=> c.hasValue
                   /\ c.value \notin {Null, "sent"} => value = c.value

\* C32: every trip and every pairing request in the store has a contact
\* method of chat, email or phone and a contact value exactly when the method
\* is not chat; and a createTrip or createPairRequest call that has ended
\* stored chat for a method that is missing or unknown, stored the caller's
\* authenticated email for method email without a value, and was rejected
\* with invalid-argument for email or phone when there was no value to store.
C32_ContactDetails ==
    /\ \A t \in TripIds : trips[t].exists =>
          /\ trips[t].hostContactMethod \in {"chat", "email", "phone"}
          /\ (trips[t].hostContactValue # Null) <=> (trips[t].hostContactMethod # "chat")
    /\ \A r \in ReqIds : reqs[r].exists =>
          /\ reqs[r].requesterContactMethod \in {"chat", "email", "phone"}
          /\ (reqs[r].requesterContactValue # Null)
                <=> (reqs[r].requesterContactMethod # "chat")
    /\ \A p \in DOMAIN ctr : ctr[p].pc = "done" =>
          ContactAsClaimed(ctr[p].data.hostContactMethod, ctr[p].data.hostContactValue,
                           ctr[p].auth.email, ctr[p].result, ctr[p].id # BadId,
                           TripDoc(ctr[p].id).hostContactMethod,
                           TripDoc(ctr[p].id).hostContactValue)
    /\ \A p \in DOMAIN cpr : cpr[p].pc = "done" =>
          ContactAsClaimed(cpr[p].data.requesterContactMethod,
                           cpr[p].data.requesterContactValue,
                           cpr[p].auth.email, cpr[p].result, cpr[p].id # BadId,
                           ReqDoc(cpr[p].id).requesterContactMethod,
                           ReqDoc(cpr[p].id).requesterContactValue)

\* a trip was stored with the host's authenticated email for method email
\* without a value, and a request sent with an unknown method has been stored
\* with chat
C32_Witness ==
    /\ \E t \in TripIds :
          /\ trips[t].exists
          /\ trips[t].hostContactMethod = "email"
          /\ trips[t].hostContactValue = "hana"
    /\ cpr[1].pc = "done" /\ cpr[1].result = "ok"
    /\ cpr[1].data.requesterContactMethod = "fax"
    /\ reqs[cpr[1].id].requesterContactMethod = "chat"

\* the list a document of config/emailDomains stands for
ListOf(raw) == [i \in DOMAIN raw.items |-> trim(toLowerCase(raw.items[i].v))]

\* the check reads the store
ReadsStore == signup.pc = "domains" /\ signup'.pc = "fetch"

\* the check takes the cached list without a read
TakesCached ==
    /\ signup.pc = "domains"
    /\ signup'.pc = "check"
    /\ signup'.allowedDomains = signup.cachedDomains[1]
    /\ ~signup'.fetched

\* C33 as stated: the list a signup check uses is the normalised
\* configuration as read less than 60 seconds before the check or during it;
\* within 60 seconds of a successful fetch the cached list is used without
\* reading the store, at 60 seconds or more it is re-read; a cached list is
\* always one read from the configuration.
C33_AsStated ==
    [][signup.pc = "domains"
          => IF signup.cachedDomains # None
                  /\ signup.clock - signup.latestStart < CACHE_TTL_MS
             THEN TakesCached
             ELSE ReadsStore]_vars

\* C33 (amended): the list a signup check uses is the normalised
\* configuration as read less than 60 seconds before the check or during it;
\* the cached list is used without reading the store within 60 seconds of
\* the start of the fetch that stored it (the last to store, which a slower
\* concurrent refresh makes an earlier start than the latest), and the store
\* is re-read at 60 seconds or more from that start or with nothing cached;
\* a cached list is always one read from the configuration, at or after the
\* time stored with it.
C33_CacheFreshness ==
    /\ [](signup.pc = "check"
              => (/\ signup.allowedDomains = ListOf(signup.usedRaw)
                  /\ signup.usedAt <= signup.clock
                  /\ signup.fetched
                        \/ signup.clock - signup.usedAt < CACHE_TTL_MS))
    /\ [](signup.cachedDomains # None
              => (/\ signup.cachedDomains[1] = ListOf(signup.cachedRaw)
                  /\ signup.lastFetchMs <= signup.cachedAt
                  /\ signup.cachedAt <= signup.clock))
    /\ [][signup.pc = "domains"
            => IF signup.cachedDomains # None
                    /\ signup.clock - signup.lastFetchMs < CACHE_TTL_MS
               THEN TakesCached
               ELSE ReadsStore]_vars

\* a check uses a list stored by a concurrent refresh that began before the
\* latest fetch and read the configuration before it changed
C33_Witness ==
    /\ signup.pc = "check"
    /\ ~signup.fetched
    /\ signup.latestStart > signup.lastFetchMs
    /\ signup.usedRaw # signup.config
    /\ signup.usedAt < signup.clock

\* C34: no step of notifyPairAcceptance writes, updates or deletes a trip or
\* a request; a step leaves the mail collection as it is or adds one document
\* to it, and removes none.
C34_NotifyWritesOnlyMail ==
    [][/\ trips' = trips
       /\ reqs' = reqs
       /\ mail \subseteq mail'
       /\ Cardinality(mail' \ mail) <= 1
       /\ mail' # mail => ntf.pc \in {"guestSend", "hostSend", "declineSend"}]_vars

\* an acceptance has been notified to both sides: the mail collection has
\* grown, the trip and the requests are what they were
C34_Witness ==
    /\ ntf.pc = "done"
    /\ ntf.toRequester = 1 /\ ntf.toHost = 1
    /\ mail = {StartNow - 1, StartNow}
    /\ trips = <<StoredTrip("hana", "paired")>>
    /\ Len(reqs) = 2

\* C35: the mail cleanup of a sweep begun at time now removes, in one step,
\* exactly the mail documents created before now - 7 days, or, when its batch
\* fails, none, and the sweep ends normally all the same; no step of the
\* sweep removes a mail document created at now - 7 days or later, or adds
\* one.
C35_MailCleanup ==
    [][/\ sweep.pc = "mail" =>
            /\ sweep'.pc = "done" /\ sweep'.result = "ok"
            /\ \/ mail' = {created \in mail : ~(created < now - 7 * DAY)}
               \/ mail' = mail
       /\ sweep.pc # "mail" => mail' = mail
      ]_vars

\* a sweep has ended: of three mails, the one created before the cutoff is
\* gone, the one created at the cutoff and the one of an hour ago are there
C35_Witness ==
    /\ sweep.pc = "done"
    /\ sweep.result = "ok"
    /\ sweep.mailDeletes = 1
    /\ mail = {now - 7 * DAY, now - 1}

\* C36: a sweep that has begun ends; a sweep that ends without a failure
\* leaves no trip that is open and ended more than a day before now or ended
\* more than three days before now; and a step that removes a trip removes
\* one trip, which was there, is the next of the sweep's list and is not in
\* the rest of the list.
C36_SweepTerminates ==
    /\ (sweep.pc \notin {"idle", "done"}) ~> (sweep.pc = "done")
    /\ []((sweep.pc = "done" /\ sweep.result = "ok")
              => ~\E t \in TripIds :
                    /\ trips[t].exists
                    /\ \/ /\ trips[t].status = "open"
                          /\ trips[t].departureEnd < now - DAY
                       \/ trips[t].departureEnd < now - 3 * DAY)
    /\ [][trips' # trips =>
             \E t \in TripIds :
                /\ sweep.pc = "commit"
                /\ t = Head(sweep.tripsToDelete)
                /\ trips[t].exists
                /\ trips' = [trips EXCEPT ![t] = NoDoc]
                /\ \A i \in DOMAIN sweep'.tripsToDelete :
                      sweep'.tripsToDelete[i] # t
         ]_vars

\* a sweep has ended without failure; a trip that both of its queries
\* returned is gone
C36_Witness ==
    /\ sweep.pc = "done"
    /\ sweep.result = "ok"
    /\ \E t \in sweep.inBoth : ~trips[t].exists

====
